---- MODULE Spec2Model ----
(***************************************************************************)
(* A model of the agentic-web core:                                        *)
(*   - MCPAgentExecutor.execute and its two ReAct loops                    *)
(*     (agents/mcp/mcp_executor.py), with the tool helpers of              *)
(*     agents/mcp/mcp_agent_tools.py;                                      *)
(*   - ServerManager (core/server.py).                                     *)
(* Spec is one call of execute; SpecSrv is the ServerManager driven by     *)
(* concurrently running calls of its operations.                           *)
(***************************************************************************)
EXTENDS Integers, Sequences, FiniteSets, TLC

(***************************************************************************)
(* Bounds of the model.                                                    *)
(***************************************************************************)
\* largest configured max_tool_calls
MaxK == 1
\* most tool calls one model response requests
MaxCalls == 2

(***************************************************************************)
(* Values.                                                                 *)
(***************************************************************************)
\* Python's None where a text is expected
None == "<None>"

\* Python truthiness of an optional text
Truthy(s) == s # None /\ s # ""

\* the fixed texts of mcp_executor.py
DefaultSystemPrompt == "You are a helpful AI assistant with access to tools."
NoResponseContent == "No response content"
FallbackText == "Sorry, I couldn't complete the task within the allowed tool calls."
NoMessageText == "No message content found"
ProcessingText == "Processing your request..."
CompletedText == "Task completed successfully!"
ErrorPrefix == "Sorry, an error occurred while processing your request: "

\* a summary that does not state the count
ThinkingTextOne(n) == "Thinking... (calling 1 tool(s))"
ThinkingText(n) == "Thinking... (calling " \o ToString(n) \o " tool(s))"
ExecutedText(key) == "Tool '" \o key \o "' executed"
FailedText(key, err) == "Tool '" \o key \o "' failed: " \o err

\* json.dumps({"error": msg})
JsonDumpsError(msg) == "{\"error\": \"" \o msg \o "\"}"

(***************************************************************************)
(* The tool catalog (agent._tools_cache): tool_key -> {server, tool}.      *)
(***************************************************************************)
ToolsCache ==
  [k \in {"calc:add", "web:get"} |->
     IF k = "calc:add" THEN [server |-> "calc", tool |-> "add"]
                       ELSE [server |-> "web", tool |-> "get"]]

\* a key the model may request that no catalog entry has
UnknownKey == "ghost:tool"

(***************************************************************************)
(* The remote side of a tool call: the pool lookup or the call may raise,  *)
(* or the call returns a result {structuredContent, content}.              *)
(* structuredContent is None or a dict, written as its items in order;     *)
(* content is a list of items, an item with no text attribute being        *)
(* written NoText.                                                         *)
(***************************************************************************)
NoText == "<no text attribute>"

\* result.structuredContent: None, or a dict of key/value items
NoStructured == [is_none |-> TRUE, items |-> <<>>]
Dict(items) == [is_none |-> FALSE, items |-> items]
StructuredValues ==
  {NoStructured,
   Dict(<<>>),
   Dict(<<[key |-> "sum", value |-> 5]>>),
   Dict(<<[key |-> "sum", value |-> 5], [key |-> "carry", value |-> 0]>>)}

\* Python truthiness of an optional dict
TruthyDict(d) == ~d.is_none /\ d.items # <<>>

\* json.dumps of a dict (line 105)
RECURSIVE JsonItems(_)
JsonItems(items) ==
  IF items = <<>> THEN ""
  ELSE "\"" \o Head(items).key \o "\": " \o ToString(Head(items).value)
       \o (IF Len(items) > 1 THEN ", " \o JsonItems(Tail(items)) ELSE "")
JsonDumps(d) == "{" \o JsonItems(d.items) \o "}"

RemoteResults ==
  [structuredContent : StructuredValues,
   content : {<<>>, <<"5">>, <<NoText>>, <<"2", NoText, "3">>}]

InvokerEnv ==
  {[fault |-> "lookup", error |-> "No client for server", result |-> <<>>],
   [fault |-> "call", error |-> "Connection refused", result |-> <<>>]}
  \cup {[fault |-> "none", error |-> "", result |-> <<r>>] : r \in RemoteResults}

\* "\n".join(parts)
RECURSIVE JoinLines(_)
JoinLines(parts) ==
  IF parts = <<>> THEN ""
  ELSE IF Len(parts) = 1 THEN parts[1]
  ELSE parts[1] \o "\n" \o JoinLines(Tail(parts))

\* a normalisation that prefers the text fragments to the structured output
NormalizeResultTextFirst(r) ==
  IF r.content # <<>>
  THEN LET text_parts == SelectSeq(r.content, LAMBDA item : item # NoText)
       IN IF text_parts # <<>> THEN JoinLines(text_parts)
          ELSE "Tool executed successfully"
  ELSE IF TruthyDict(r.structuredContent)
  THEN JsonDumps(r.structuredContent)
  ELSE "Tool executed successfully (no output)"

\* the text of a successful remote result (mcp_agent_tools.py 89-105)
NormalizeResult(r) ==
  IF TruthyDict(r.structuredContent)
  THEN JsonDumps(r.structuredContent)
  ELSE IF r.content # <<>>
  THEN LET text_parts == SelectSeq(r.content, LAMBDA item : item # NoText)
       IN IF text_parts # <<>> THEN JoinLines(text_parts)
          ELSE "Tool executed successfully"
  ELSE "Tool executed successfully (no output)"

NotFoundMsg(tool_key) == "Tool '" \o tool_key \o "' not found in cache"

\* execute_mcp_tool_native without its try/except: a fault reaches the caller
execute_mcp_tool_native_no_try(tool_key, tools_cache, env) ==
  IF tool_key \notin DOMAIN tools_cache
  THEN [raised |-> TRUE, value |-> "KeyError", lookups |-> 0, remote_calls |-> 0]
  ELSE IF env.fault = "lookup"
  THEN [raised |-> TRUE, value |-> env.error, lookups |-> 1, remote_calls |-> 0]
  ELSE IF env.fault = "call"
  THEN [raised |-> TRUE, value |-> env.error, lookups |-> 1, remote_calls |-> 1]
  ELSE [raised |-> FALSE, value |-> NormalizeResult(env.result[1]),
        lookups |-> 1, remote_calls |-> 1]

(***************************************************************************)
(* execute_mcp_tool_native: what it hands to its caller (raised: an        *)
(* exception instead of a value), and the transport calls it made.         *)
(***************************************************************************)
execute_mcp_tool_native(tool_key, tools_cache, env) ==
  IF tool_key \notin DOMAIN tools_cache
  THEN [raised |-> FALSE, value |-> JsonDumpsError(NotFoundMsg(tool_key)),
        lookups |-> 0, remote_calls |-> 0]
  ELSE IF env.fault = "lookup"
  THEN [raised |-> FALSE, value |-> JsonDumpsError(env.error),
        lookups |-> 1, remote_calls |-> 0]
  ELSE IF env.fault = "call"
  THEN [raised |-> FALSE, value |-> JsonDumpsError(env.error),
        lookups |-> 1, remote_calls |-> 1]
  ELSE [raised |-> FALSE, value |-> NormalizeResult(env.result[1]),
        lookups |-> 1, remote_calls |-> 1]

(***************************************************************************)
(* The model client's responses.  A native response carries its tool calls *)
(* as {id, function.name, function.arguments}; arguments is JSON text that *)
(* json.loads (mcp_executor.py 210) may fail to decode.                    *)
(***************************************************************************)
ArgsOk == "{\"a\": 2, \"b\": 3}"
ArgsBad == "{a: 2"

\* json.loads(text): whether it decodes
JsonLoadsOk(text) == text = ArgsOk

RequestKeys == {"calc:add", UnknownKey}

CallId(it, i) == "call_" \o ToString(it) \o "_" \o ToString(i)

NativeCallLists(it) ==
  UNION {{[i \in 1..n |-> [id |-> CallId(it, i), name |-> f[i].name,
                           arguments |-> f[i].arguments]] :
            f \in [1..n -> [name : RequestKeys, arguments : {ArgsOk, ArgsBad}]]} :
         n \in 1..MaxCalls}

FinalContents == {None, "", "hi", "The answer is 5"}

NativeResponses(it) ==
  [content : FinalContents, tool_calls : {<<>>}]
  \cup [content : {None}, tool_calls : NativeCallLists(it)]

(***************************************************************************)
(* The prompt convention: the response is text only and the agent parses   *)
(* tool calls {tool, arguments} out of it.  MCPAgent (agents/mcp/          *)
(* mcp_agent.py) is not among the source files; its helpers are modelled   *)
(* from sections 4.2, 4.3 and 7 of the specification.                      *)
(***************************************************************************)
PromptCallLists ==
  UNION {[1..n -> [tool : RequestKeys, arguments : {ArgsOk}]] : n \in 1..MaxCalls}

EncodeCall(c) == "{\"tool\": \"" \o c.tool \o "\", \"arguments\": " \o c.arguments \o "}"

RECURSIVE EncodeCalls(_)
EncodeCalls(cs) ==
  IF cs = <<>> THEN ""
  ELSE EncodeCall(Head(cs)) \o (IF Len(cs) > 1 THEN ", " ELSE "") \o EncodeCalls(Tail(cs))

\* the text a model writes to request the calls cs
ToolCallText(cs) == "TOOL_CALLS: [" \o EncodeCalls(cs) \o "]"

MalformedText == "TOOL_CALLS: [{\"tool\": \"calc:add\", \"arguments\": "

PromptResponses ==
  [content : FinalContents \cup {MalformedText}
             \cup {ToolCallText(cs) : cs \in PromptCallLists},
   tool_calls : {<<>>}]

\* MCPAgent._parse_tool_calls: best effort, no tool calls when the text does not parse
parse_tool_calls(text) ==
  IF \E cs \in PromptCallLists : ToolCallText(cs) = text
  THEN CHOOSE cs \in PromptCallLists : ToolCallText(cs) = text
  ELSE <<>>

\* MCPAgent._execute_tool_call: a dict with "error" on any fault, never raises
execute_tool_call(tool_call, tools_cache, env) ==
  IF tool_call.tool \notin DOMAIN tools_cache
  THEN [tool |-> tool_call.tool, error |-> NotFoundMsg(tool_call.tool)]
  ELSE IF env.fault # "none"
  THEN [tool |-> tool_call.tool, error |-> env.error]
  ELSE [tool |-> tool_call.tool, result |-> NormalizeResult(env.result[1])]

FormatOne(r) ==
  "- " \o r.tool \o ": "
  \o (IF "error" \in DOMAIN r THEN "ERROR " \o r.error ELSE r.result)

\* MCPAgent._format_tool_results: one text holding every result, in list order
RECURSIVE format_tool_results(_)
format_tool_results(tool_results) ==
  IF tool_results = <<>> THEN "Tool results:"
  ELSE format_tool_results(SubSeq(tool_results, 1, Len(tool_results) - 1))
       \o "\n" \o FormatOne(tool_results[Len(tool_results)])

\* MCPAgent._build_initial_messages: the prompt that lists the tools, then the user turn
build_initial_messages(user_message) ==
  <<[role |-> "system", content |-> "Tools: calc:add, web:get. Reply with JSON to call a tool."],
    [role |-> "user", content |-> user_message]>>

(***************************************************************************)
(* The request context: message may be absent; a part carries its text     *)
(* directly ("text"), wrapped in root ("root"), or is wrapped and has no   *)
(* text, such as a file part ("other").                                    *)
(***************************************************************************)
Requests ==
  {[has_message |-> FALSE, parts |-> <<>>],
   [has_message |-> TRUE, parts |-> <<>>],
   [has_message |-> TRUE, parts |-> <<[shape |-> "other", text |-> None],
                                      [shape |-> "text", text |-> ""]>>],
   [has_message |-> TRUE, parts |-> <<[shape |-> "text", text |-> "2+"],
                                      [shape |-> "other", text |-> None],
                                      [shape |-> "root", text |-> "3?"]>>]}

\* the text one part adds to current_text (mcp_executor.py 355-360)
PartText(part) ==
  IF part.shape = "text" /\ Truthy(part.text) THEN part.text
  ELSE IF part.shape = "root" THEN part.text
  ELSE ""

RECURSIVE ConcatParts(_)
ConcatParts(parts) ==
  IF parts = <<>> THEN "" ELSE PartText(Head(parts)) \o ConcatParts(Tail(parts))

\* MCPAgentExecutor.prepare_input: the user message, or None
prepare_input(context) ==
  IF context.has_message /\ context.parts # <<>> /\ ConcatParts(context.parts) # ""
  THEN ConcatParts(context.parts)
  ELSE None

(***************************************************************************)
(* State of one call of MCPAgentExecutor.execute.                          *)
(***************************************************************************)
VARIABLES
  mode,            \* "native" or "prompt": llm_manager.config
  max_tool_calls,  \* mcp_config.max_tool_calls
  request,         \* the RequestContext
  pc,              \* the await the call is at
  updater,         \* whether the local updater is bound
  messages,        \* the loop's message history
  iteration,       \* the loop variable
  response,        \* the model response of this iteration (prompt: with the parsed tool_calls)
  tc,              \* index of the tool call the inner loop is at
  tool_results,    \* prompt convention: tool_results of this iteration
  result,          \* the loop's return value
  outcome,         \* "running", "returned" or "raised"
  exc,             \* the exception execute raised
  trace            \* every call on a collaborator, in order

execVars == <<mode, max_tool_calls, request, pc, updater, messages, iteration,
              response, tc, tool_results, result, outcome, exc, trace>>

NoResponse == [content |-> None, tool_calls |-> <<>>]

ExecInit ==
  /\ mode \in {"native", "prompt"}
  /\ max_tool_calls \in 0..MaxK
  /\ request \in Requests
  /\ pc = "updater"
  /\ updater = FALSE
  /\ messages = <<>>
  /\ iteration = 0
  /\ response = NoResponse
  /\ tc = 0
  /\ tool_results = <<>>
  /\ result = None
  /\ outcome = "running"
  /\ exc = None
  /\ trace = <<>>

\* events of the trace
Chat(ok) == [ev |-> "chat", ok |-> ok]
Status(text) == [ev |-> "status", text |-> text, final |-> FALSE]
Failed(text) == [ev |-> "failed", text |-> text]
\* an artifact that carries the completion message instead of the answer
ArtifactOfCompletion(text) == [ev |-> "artifact", text |-> CompletedText]
Artifact(text) == [ev |-> "artifact", text |-> text]
Complete(text) == [ev |-> "complete", text |-> text]
ToolRun(id, key, r) ==
  [ev |-> "tool", id |-> id, key |-> key, value |-> r.value,
   lookups |-> r.lookups, remote_calls |-> r.remote_calls]

\* the values the loop variable takes
NativeIterations(k) == 1..(k + 1)
PromptIterations(k) == 0..k

\* the handler without its raise: the failure is notified and then swallowed
ExceptHandlerNoRaise(e, tr) ==
  /\ pc' = "done"
  /\ outcome' = "returned"
  /\ trace' = Append(tr, Failed(ErrorPrefix \o e))
  /\ exc' = None

(***************************************************************************)
(* except Exception as e (mcp_executor.py 118-128), entered with the       *)
(* trace tr: the handler reads the local updater, which is unbound when    *)
(* TaskUpdater(...) itself raised, and then the handler raises             *)
(* UnboundLocalError before it notifies anyone.                            *)
(***************************************************************************)
ExceptHandler(e, tr) ==
  /\ pc' = "done"
  /\ outcome' = "raised"
  /\ IF updater
     THEN /\ trace' = Append(tr, Failed(ErrorPrefix \o e))
          /\ exc' = e
     ELSE /\ trace' = tr
          /\ exc' = "UnboundLocalError"

\* line 58: updater = TaskUpdater(...)
CreateUpdater ==
  /\ pc = "updater"
  /\ \E ok \in BOOLEAN :
       IF ok
       THEN /\ updater' = TRUE
            /\ pc' = "load_tools"
            /\ UNCHANGED <<outcome, exc, trace>>
       ELSE /\ ExceptHandler("TaskUpdater failed", trace)
            /\ UNCHANGED updater
  /\ UNCHANGED <<mode, max_tool_calls, request, messages, iteration, response,
                 tc, tool_results, result>>

\* line 61: await self.agent._ensure_tools_loaded()
EnsureToolsLoaded ==
  /\ pc = "load_tools"
  /\ \E ok \in BOOLEAN :
       IF ok
       THEN /\ pc' = "prepare"
            /\ UNCHANGED <<outcome, exc, trace>>
       ELSE ExceptHandler("tool loading failed", trace)
  /\ UNCHANGED <<mode, max_tool_calls, request, updater, messages, iteration,
                 response, tc, tool_results, result>>

\* the history the loop starts from (lines 145-151, 257)
InitialMessages(user_message) ==
  IF mode = "native"
  THEN <<[role |-> "system", content |-> DefaultSystemPrompt],
         [role |-> "user", content |-> user_message]>>
  ELSE build_initial_messages(user_message)

\* a check that lets every message through
NoContentNever(user_message) == FALSE

\* line 66: if not user_message
NoContent(user_message) == ~Truthy(user_message)

\* lines 64-97: prepare_input, the early return, the first status update
PrepareInput ==
  /\ pc = "prepare"
  /\ \E ok \in BOOLEAN :
       IF ~ok
       THEN /\ ExceptHandler("prepare_input failed", trace)
            /\ UNCHANGED <<messages, iteration>>
       ELSE LET user_message == prepare_input(request)
            IN IF NoContent(user_message)
               THEN /\ trace' = Append(trace, Failed(NoMessageText))
                    /\ pc' = "done"
                    /\ outcome' = "returned"
                    /\ UNCHANGED <<exc, messages, iteration>>
               ELSE /\ trace' = Append(trace, Status(ProcessingText))
                    /\ messages' = InitialMessages(user_message)
                    /\ iteration' = IF mode = "native" THEN 1 ELSE 0
                    /\ pc' = "chat"
                    /\ UNCHANGED <<outcome, exc>>
  /\ UNCHANGED <<mode, max_tool_calls, request, updater, response, tc,
                 tool_results, result>>

\* what the remote side does to the tool calls of a loop
LoopEnv ==
  {e \in InvokerEnv :
     \/ e.fault = "call"
     \/ e.fault = "none" /\ e.result[1] = [structuredContent |-> NoStructured, content |-> <<"5">>]}

\* the error-tagged results of the native invoker
ErrorTexts ==
  {JsonDumpsError(NotFoundMsg(k)) : k \in RequestKeys}
  \cup {JsonDumpsError(e.error) : e \in {x \in InvokerEnv : x.fault # "none"}}

\* the operands of "or" swapped: the placeholder always wins
NativeFinalAnswerPlaceholder(resp) ==
  IF Truthy(NoResponseContent) THEN NoResponseContent ELSE resp.content

\* lines 170-174: the answer of a response with no tool calls
NativeFinalAnswer(resp) ==
  IF Truthy(resp.content) THEN resp.content ELSE NoResponseContent

\* an assistant message that records the first requested call only
AssistantMessageFirstCall(resp) ==
  [role |-> "assistant", content |-> resp.content,
   tool_calls |-> <<[id |-> resp.tool_calls[1].id, type |-> "function",
                     function |-> [name |-> resp.tool_calls[1].name,
                                   arguments |-> resp.tool_calls[1].arguments]]>>]

\* lines 188-202: the assistant message of a response with tool calls
AssistantMessage(resp) ==
  [role |-> "assistant", content |-> resp.content,
   tool_calls |-> [i \in 1..Len(resp.tool_calls) |->
                     [id |-> resp.tool_calls[i].id, type |-> "function",
                      function |-> [name |-> resp.tool_calls[i].name,
                                    arguments |-> resp.tool_calls[i].arguments]]]]

\* a tool message that names the first call of the iteration, not its own
ToolMessageFirstId(tool_call, value) ==
  [role |-> "tool", tool_call_id |-> response.tool_calls[1].id, content |-> value]

\* lines 220-224: the tool message that answers tool_call
ToolMessage(tool_call, value) ==
  [role |-> "tool", tool_call_id |-> tool_call.id, content |-> value]

\* messages.insert(0, msg) in place of append
AppendMessageFront(msgs, msg) == <<msg>> \o msgs

\* messages.append(msg)
AppendMessage(msgs, msg) == Append(msgs, msg)

\* a merged message that holds the last result only
MergedMessageLastOnly(results) ==
  [role |-> "user", content |-> format_tool_results(<<results[Len(results)]>>)]

\* lines 330-331: the user message that merges the results of an iteration
MergedMessage(results) ==
  [role |-> "user", content |-> format_tool_results(results)]

\* the for loop's step after the last tool call of an iteration:
\* the next iteration, or the fallback return (lines 239-243, 333-338)
NextIteration(range) ==
  IF iteration + 1 \in range
  THEN /\ iteration' = iteration + 1
       /\ pc' = "chat"
       /\ UNCHANGED result
  ELSE /\ result' = FallbackText
       /\ pc' = "artifact"
       /\ UNCHANGED iteration

\* lines 157-202: one model invocation of the native loop
NativeChat ==
  /\ pc = "chat" /\ mode = "native"
  /\ iteration \in NativeIterations(max_tool_calls)
  /\ \/ /\ ExceptHandler("model call failed", Append(trace, Chat(FALSE)))
        /\ UNCHANGED <<messages, response, tc, result>>
     \/ \E resp \in NativeResponses(iteration) :
          IF resp.tool_calls = <<>>
          THEN /\ result' = NativeFinalAnswer(resp)
               /\ response' = resp
               /\ trace' = Append(trace, Chat(TRUE))
               /\ pc' = "artifact"
               /\ UNCHANGED <<messages, tc, outcome, exc>>
          ELSE /\ trace' = trace \o <<Chat(TRUE), Status(ThinkingText(Len(resp.tool_calls)))>>
               /\ messages' = AppendMessage(messages, AssistantMessage(resp))
               /\ response' = resp
               /\ tc' = 1
               /\ pc' = "tool"
               /\ UNCHANGED <<result, outcome, exc>>
  /\ UNCHANGED <<mode, max_tool_calls, request, updater, iteration, tool_results>>

\* lines 207-237: one tool call of the native loop
NativeTool ==
  /\ pc = "tool" /\ mode = "native"
  /\ LET tool_call == response.tool_calls[tc]
         tool_key == tool_call.name
     IN IF ~JsonLoadsOk(tool_call.arguments)
        THEN /\ ExceptHandler("JSONDecodeError", trace)
             /\ UNCHANGED <<messages, iteration, tc, result>>
        ELSE \E env \in LoopEnv :
               LET r == execute_mcp_tool_native(tool_key, ToolsCache, env)
               IN IF r.raised
                  THEN /\ ExceptHandler(r.value, Append(trace, ToolRun(tool_call.id, tool_key, r)))
                       /\ UNCHANGED <<messages, iteration, tc, result>>
                  ELSE /\ messages' = AppendMessage(messages, ToolMessage(tool_call, r.value))
                       /\ trace' = trace \o <<ToolRun(tool_call.id, tool_key, r),
                                              Status(ExecutedText(tool_key))>>
                       /\ UNCHANGED <<outcome, exc>>
                       /\ IF tc < Len(response.tool_calls)
                          THEN /\ tc' = tc + 1
                               /\ UNCHANGED <<pc, iteration, result>>
                          ELSE /\ NextIteration(NativeIterations(max_tool_calls))
                               /\ UNCHANGED tc
  /\ UNCHANGED <<mode, max_tool_calls, request, updater, response, tool_results>>

\* what _execute_tool_call reports to the trace
PromptRun(r) ==
  [raised |-> FALSE, value |-> FormatOne(r),
   lookups |-> IF r.tool \in DOMAIN ToolsCache THEN 1 ELSE 0,
   remote_calls |-> IF r.tool \in DOMAIN ToolsCache THEN 1 ELSE 0]

\* an answer that is the placeholder and not the response's text
PromptFinalAnswerPlaceholder(assistant_message) == NoResponseContent

\* line 285: the answer of a response with no tool calls
PromptFinalAnswer(assistant_message) == assistant_message

\* lines 260-305: one model invocation of the prompt loop
PromptChat ==
  /\ pc = "chat" /\ mode = "prompt"
  /\ iteration \in PromptIterations(max_tool_calls)
  /\ \/ /\ ExceptHandler("model call failed", Append(trace, Chat(FALSE)))
        /\ UNCHANGED <<messages, response, tc, tool_results, result>>
     \/ \E resp \in PromptResponses :
          LET assistant_message == resp.content
          IN IF assistant_message = None
             THEN \* line 272: assistant_message[:200] on None
                  /\ ExceptHandler("TypeError", Append(trace, Chat(TRUE)))
                  /\ response' = resp
                  /\ UNCHANGED <<messages, tc, tool_results, result>>
             ELSE LET tool_calls == parse_tool_calls(assistant_message)
                  IN IF tool_calls = <<>>
                     THEN /\ result' = PromptFinalAnswer(assistant_message)
                          /\ response' = resp
                          /\ trace' = Append(trace, Chat(TRUE))
                          /\ pc' = "artifact"
                          /\ UNCHANGED <<messages, tc, tool_results, outcome, exc>>
                     ELSE /\ trace' = trace \o <<Chat(TRUE), Status(ThinkingText(Len(tool_calls)))>>
                          /\ messages' = AppendMessage(messages,
                                           [role |-> "assistant", content |-> assistant_message])
                          /\ response' = [content |-> assistant_message, tool_calls |-> tool_calls]
                          /\ tool_results' = <<>>
                          /\ tc' = 1
                          /\ pc' = "tool"
                          /\ UNCHANGED <<result, outcome, exc>>
  /\ UNCHANGED <<mode, max_tool_calls, request, updater, iteration>>

\* lines 309-331: one tool call of the prompt loop
PromptTool ==
  /\ pc = "tool" /\ mode = "prompt"
  /\ \E env \in LoopEnv :
       LET tool_call == response.tool_calls[tc]
           r == execute_tool_call(tool_call, ToolsCache, env)
           progress_text == IF "error" \in DOMAIN r
                            THEN FailedText(tool_call.tool, r.error)
                            ELSE ExecutedText(tool_call.tool)
       IN /\ tool_results' = Append(tool_results, r)
          /\ trace' = trace \o <<ToolRun(CallId(iteration, tc), tool_call.tool, PromptRun(r)),
                                 Status(progress_text)>>
          /\ IF tc < Len(response.tool_calls)
             THEN /\ tc' = tc + 1
                  /\ UNCHANGED <<pc, iteration, result, messages>>
             ELSE /\ messages' = AppendMessage(messages, MergedMessage(tool_results'))
                  /\ NextIteration(PromptIterations(max_tool_calls))
                  /\ UNCHANGED tc
  /\ UNCHANGED <<mode, max_tool_calls, request, updater, response, outcome, exc>>

\* lines 103-107: await updater.add_artifact(...)
AddArtifact ==
  /\ pc = "artifact"
  /\ \E ok \in BOOLEAN :
       IF ok
       THEN /\ trace' = Append(trace, Artifact(result))
            /\ pc' = "complete"
            /\ UNCHANGED <<outcome, exc>>
       ELSE ExceptHandler("add_artifact failed", trace)
  /\ UNCHANGED <<mode, max_tool_calls, request, updater, messages, iteration,
                 response, tc, tool_results, result>>

\* lines 111-116: await updater.complete(...)
CompleteTask ==
  /\ pc = "complete"
  /\ \E ok \in BOOLEAN :
       IF ok
       THEN /\ trace' = Append(trace, Complete(CompletedText))
            /\ pc' = "done"
            /\ outcome' = "returned"
            /\ UNCHANGED exc
       ELSE ExceptHandler("complete failed", trace)
  /\ UNCHANGED <<mode, max_tool_calls, request, updater, messages, iteration,
                 response, tc, tool_results, result>>

(***************************************************************************)
(* Two loops that run concurrently on one agent: they interleave at their  *)
(* awaits (the model invocation, each tool invocation).  Each loop keeps   *)
(* its history in the local variable messages (lines 148-151, 257).  The   *)
(* model is a function of the history it is given and the tools are        *)
(* deterministic, so that a loop's run can be compared with its run alone. *)
(***************************************************************************)
LoopIds == {1, 2}

\* the user message of loop i, which asks for n rounds of tool calls
UserText(i, n) == "request " \o ToString(i) \o ": " \o ToString(n) \o " rounds"
WantRounds == 0..(MaxK + 1)
WantOf(text) == CHOOSE n \in WantRounds : \E i \in LoopIds : text = UserText(i, n)

\* the history a loop starts from (lines 145-151, 257)
LoopInitialMessages(m, user_message) ==
  IF m = "native"
  THEN <<[role |-> "system", content |-> DefaultSystemPrompt],
         [role |-> "user", content |-> user_message]>>
  ELSE build_initial_messages(user_message)

\* llm_manager.chat(messages): the model asks for tools until the history
\* holds the rounds the user asked for, and then answers
ScriptedModel(m, msgs) ==
  LET text == msgs[2].content
      rounds == Len(SelectSeq(msgs, LAMBDA x : x.role = "assistant"))
      n == IF WantOf(text) >= 2 /\ MaxCalls >= 2 THEN 2 ELSE 1
  IN IF rounds < WantOf(text)
     THEN IF m = "native"
          THEN [content |-> None,
                tool_calls |-> [j \in 1..n |-> [id |-> CallId(rounds + 1, j), name |-> "calc:add",
                                                arguments |-> ArgsOk]]]
          ELSE [content |-> ToolCallText([j \in 1..n |-> [tool |-> "calc:add", arguments |-> ArgsOk]]),
                tool_calls |-> <<>>]
     ELSE [content |-> "answer to " \o text \o " from " \o ToString(Len(msgs)) \o " messages",
           tool_calls |-> <<>>]

\* the remote side answers every call
ScriptedEnv == CHOOSE e \in LoopEnv : e.fault = "none"

\* one list self.messages for every loop
SharedHistory(i) == 1

\* the list a loop appends to: its own local variable messages
HistoryOf(i) == i

VARIABLES
  pair_k,          \* mcp_config.max_tool_calls of the agent
  loops,           \* loop id -> [mode, user_message, pc, iteration, response, tc,
                   \*             tool_results, result, chats, tools]
  histories        \* the message lists

pairVars == <<pair_k, loops, histories>>

IdleLoop ==
  [mode |-> "native", user_message |-> UserText(1, 0), pc |-> "idle", iteration |-> 0,
   response |-> NoResponse, tc |-> 0, tool_results |-> <<>>, result |-> None,
   chats |-> 0, tools |-> 0]

PairIdle ==
  /\ pair_k = 0
  /\ loops = [i \in LoopIds |-> IdleLoop]
  /\ histories = [i \in LoopIds |-> <<>>]

PairInit ==
  /\ pair_k \in 0..MaxK
  /\ \E ms \in [LoopIds -> {"native", "prompt"}], ws \in [LoopIds -> WantRounds] :
       loops = [i \in LoopIds |->
                  [IdleLoop EXCEPT !.mode = ms[i], !.user_message = UserText(i, ws[i]),
                                   !.pc = "start"]]
  /\ histories = [i \in LoopIds |-> <<>>]

\* lines 148-151, 257: messages = [...]
PairStart(i) ==
  /\ loops[i].pc = "start"
  /\ histories' = [histories EXCEPT ![HistoryOf(i)] =
                      LoopInitialMessages(loops[i].mode, loops[i].user_message)]
  /\ loops' = [loops EXCEPT ![i].pc = "chat",
                            ![i].iteration = IF loops[i].mode = "native" THEN 1 ELSE 0]
  /\ UNCHANGED pair_k

\* the loop variable's range
LoopRange(m, k) == IF m = "native" THEN NativeIterations(k) ELSE PromptIterations(k)

\* lines 157-202, 260-305: one model invocation of loop i
PairChat(i) ==
  /\ loops[i].pc = "chat"
  /\ LET l == loops[i]
         msgs == histories[HistoryOf(i)]
         resp == ScriptedModel(l.mode, msgs)
         tool_calls == IF l.mode = "native" THEN resp.tool_calls
                       ELSE parse_tool_calls(resp.content)
     IN IF tool_calls = <<>>
        THEN /\ loops' = [loops EXCEPT ![i].pc = "done",
                                       ![i].chats = @ + 1,
                                       ![i].response = resp,
                                       ![i].result = IF l.mode = "native"
                                                     THEN NativeFinalAnswer(resp)
                                                     ELSE PromptFinalAnswer(resp.content)]
             /\ UNCHANGED histories
        ELSE /\ loops' = [loops EXCEPT ![i].pc = "tool",
                                       ![i].chats = @ + 1,
                                       ![i].response = [content |-> resp.content,
                                                        tool_calls |-> tool_calls],
                                       ![i].tool_results = <<>>,
                                       ![i].tc = 1]
             /\ histories' = [histories EXCEPT ![HistoryOf(i)] =
                                AppendMessage(msgs,
                                  IF l.mode = "native" THEN AssistantMessage(resp)
                                  ELSE [role |-> "assistant", content |-> resp.content])]
  /\ UNCHANGED pair_k

\* lines 207-243, 309-338: one tool invocation of loop i
PairTool(i) ==
  /\ loops[i].pc = "tool"
  /\ LET l == loops[i]
         msgs == histories[HistoryOf(i)]
         tool_call == l.response.tool_calls[l.tc]
         last == l.tc = Len(l.response.tool_calls)
         more == l.iteration + 1 \in LoopRange(l.mode, pair_k)
         after == [l EXCEPT !.tools = @ + 1,
                            !.tc = IF last THEN @ ELSE @ + 1,
                            !.pc = IF ~last THEN "tool" ELSE IF more THEN "chat" ELSE "done",
                            !.iteration = IF last /\ more THEN @ + 1 ELSE @,
                            !.result = IF last /\ ~more THEN FallbackText ELSE @]
     IN IF l.mode = "native"
        THEN LET r == execute_mcp_tool_native(tool_call.name, ToolsCache, ScriptedEnv)
             IN /\ histories' = [histories EXCEPT ![HistoryOf(i)] =
                                   AppendMessage(msgs, ToolMessage(tool_call, r.value))]
                /\ loops' = [loops EXCEPT ![i] = after]
        ELSE LET r == execute_tool_call(tool_call, ToolsCache, ScriptedEnv)
                 results == Append(l.tool_results, r)
             IN /\ histories' = [histories EXCEPT ![HistoryOf(i)] =
                                   IF last THEN AppendMessage(msgs, MergedMessage(results))
                                   ELSE msgs]
                /\ loops' = [loops EXCEPT ![i] = [after EXCEPT !.tool_results = results]]
  /\ UNCHANGED pair_k

(***************************************************************************)
(* One call of execute_mcp_tool_native on its own: the key, the arguments  *)
(* and the remote side's behaviour are drawn, the call is applied.         *)
(***************************************************************************)
VARIABLES
  inv_in,          \* [tool_key, arguments, env]
  inv_out          \* <<>> before the call, <<what it handed back>> after

invVars == <<inv_in, inv_out>>

InvokeIdle ==
  /\ inv_in = [tool_key |-> UnknownKey, arguments |-> ArgsOk,
               env |-> CHOOSE e \in InvokerEnv : e.fault = "call"]
  /\ inv_out = <<>>

InvokeInit ==
  /\ inv_in \in [tool_key : DOMAIN ToolsCache \cup {UnknownKey},
                 arguments : {ArgsOk, "{}"},
                 env : InvokerEnv]
  /\ inv_out = <<>>

Invoke ==
  /\ inv_out = <<>>
  /\ inv_out' = <<execute_mcp_tool_native(inv_in.tool_key, ToolsCache, inv_in.env)>>
  /\ UNCHANGED inv_in

(***************************************************************************)
(* convert_mcp_tools_to_openai (mcp_agent_tools.py 15-53) on its own: a    *)
(* tools cache is drawn and rendered.  The cache is a dict, written as its *)
(* entries {tool_key, server, tool} in iteration order; a tool has a name, *)
(* a description (None, empty or a text) and possibly an inputSchema       *)
(* attribute (None or a dict).                                             *)
(***************************************************************************)
\* most tools in a rendered cache
MaxTools == 2

RenderKeys == {"calc:add", "web:get", "fs:read"}
ServerOf(tool_key) ==
  IF tool_key = "calc:add" THEN "calc" ELSE IF tool_key = "web:get" THEN "web" ELSE "fs"
NameOf(tool_key) ==
  IF tool_key = "calc:add" THEN "add" ELSE IF tool_key = "web:get" THEN "get" ELSE "read"

DeclaredSchemas ==
  {Dict(<<[key |-> "type", value |-> "object"],
          [key |-> "properties", value |-> "{a: number, b: number}"]>>),
   Dict(<<[key |-> "type", value |-> "object"],
          [key |-> "properties", value |-> "{url: string}"],
          [key |-> "required", value |-> "[url]"]>>)}

\* the tools a cache may hold for a key
ToolDescriptors(tool_key) ==
  {[name |-> NameOf(tool_key), description |-> d, has_inputSchema |-> FALSE,
    inputSchema |-> NoStructured] : d \in {None, "", "Does its job"}}
  \cup [name : {NameOf(tool_key)}, description : {None, "", "Does its job"},
        has_inputSchema : {TRUE},
        inputSchema : {NoStructured, Dict(<<>>)} \cup DeclaredSchemas]

CacheEntries ==
  UNION {[tool_key : {k}, server : {ServerOf(k)}, tool : ToolDescriptors(k)] : k \in RenderKeys}

\* the caches: at most MaxTools entries, no key twice
ToolsCaches ==
  UNION {{c \in [1..n -> CacheEntries] :
            \A i, j \in 1..n : c[i].tool_key = c[j].tool_key => i = j} : n \in 0..MaxTools}

\* lines 44-47: the schema used when the tool declares none
EmptyObjectSchema ==
  Dict(<<[key |-> "type", value |-> "object"], [key |-> "properties", value |-> "{}"]>>)

\* a description taken as it is, with no default
DescriptionRaw(tool_key, tool) == tool.description

\* line 35: tool.description or f"Tool: {tool_key}"
DescriptionOf(tool_key, tool) ==
  IF Truthy(tool.description) THEN tool.description ELSE "Tool: " \o tool_key

\* a parameters schema that is always the empty-object schema
ParametersDefault(tool) == EmptyObjectSchema

\* lines 40-47: hasattr(tool, "inputSchema") and tool.inputSchema
ParametersOf(tool) ==
  IF tool.has_inputSchema /\ TruthyDict(tool.inputSchema)
  THEN tool.inputSchema
  ELSE EmptyObjectSchema

\* lines 31-37, 40-47: one OpenAI tool
OpenAITool(tool_key, tool) ==
  [type |-> "function",
   function |-> [name |-> tool_key,
                 description |-> DescriptionOf(tool_key, tool),
                 parameters |-> ParametersOf(tool)]]

\* lines 25-53: the list rendered for a cache, in the cache's order
convert_mcp_tools_to_openai(cache) ==
  [raised |-> FALSE,
   value |-> [i \in 1..Len(cache) |-> OpenAITool(cache[i].tool_key, cache[i].tool)]]

VARIABLES
  tools_cache,     \* the cache handed to convert_mcp_tools_to_openai
  openai_tools     \* <<>> before the call, <<what it handed back>> after

renderVars == <<tools_cache, openai_tools>>

RenderIdle ==
  /\ tools_cache = <<>>
  /\ openai_tools = <<>>

RenderInit ==
  /\ tools_cache \in ToolsCaches
  /\ openai_tools = <<>>

Convert ==
  /\ openai_tools = <<>>
  /\ openai_tools' = <<convert_mcp_tools_to_openai(tools_cache)>>
  /\ tools_cache' = tools_cache

(***************************************************************************)
(* prepare_input of the two executors that drive a model, on their own: a  *)
(* request context with a task history is drawn and each is applied.       *)
(* LLMAgentExecutor.prepare_input (llm_executor.py 35-87) returns a list   *)
(* of {role, content} or None; MCPAgentExecutor.prepare_input a text or    *)
(* None.                                                                   *)
(***************************************************************************)
\* most messages in a task history
MaxHistory == 2

\* the parts a history message may have
HistoryParts ==
  {<<>>,
   <<[shape |-> "other", text |-> None]>>,
   <<[shape |-> "text", text |-> "add "]>>,
   <<[shape |-> "root", text |-> "1+"], [shape |-> "other", text |-> None],
     [shape |-> "text", text |-> "1"]>>}

HistoryMessages == [role : {"user", "agent"}, parts : HistoryParts]

Histories == UNION {[1..n -> HistoryMessages] : n \in 0..MaxHistory}

\* context.current_task.history (empty when there is no task) and context.message
Contexts == [history : Histories, message : Requests]

\* lines 54-66: the entry a history message adds, if it has text
HistoryEntry(msg) ==
  IF ConcatParts(msg.parts) # ""
  THEN <<[role |-> IF msg.role = "user" THEN "user" ELSE "assistant",
          content |-> ConcatParts(msg.parts)]>>
  ELSE <<>>

RECURSIVE HistoryEntries(_)
HistoryEntries(history) ==
  IF history = <<>> THEN <<>>
  ELSE HistoryEntry(Head(history)) \o HistoryEntries(Tail(history))

\* lines 69-81: the entry the current message adds, if it has text
CurrentEntry(message) ==
  IF message.has_message /\ message.parts # <<>> /\ ConcatParts(message.parts) # ""
  THEN <<[role |-> "user", content |-> ConcatParts(message.parts)]>>
  ELSE <<>>

\* a preparation that leaves the history out
llm_prepare_input_current_only(ctx) ==
  [is_none |-> CurrentEntry(ctx.message) = <<>>, messages |-> CurrentEntry(ctx.message)]

\* LLMAgentExecutor.prepare_input: messages if messages else None
llm_prepare_input(ctx) ==
  LET msgs == HistoryEntries(ctx.history) \o CurrentEntry(ctx.message)
  IN [is_none |-> msgs = <<>>, messages |-> msgs]

VARIABLES
  req_context,     \* the RequestContext handed to prepare_input
  llm_input,       \* <<>> before the LLM executor's call, <<its result>> after
  mcp_input        \* <<>> before the MCP executor's call, <<its result>> after

prepVars == <<req_context, llm_input, mcp_input>>

PrepareIdle ==
  /\ req_context = [history |-> <<>>, message |-> [has_message |-> FALSE, parts |-> <<>>]]
  /\ llm_input = <<>>
  /\ mcp_input = <<>>

PrepareInit ==
  /\ req_context \in Contexts
  /\ llm_input = <<>>
  /\ mcp_input = <<>>

PrepareLLM ==
  /\ llm_input = <<>>
  /\ llm_input' = <<llm_prepare_input(req_context)>>
  /\ UNCHANGED <<req_context, mcp_input>>

PrepareMCP ==
  /\ mcp_input = <<>>
  /\ mcp_input' = <<prepare_input(req_context.message)>>
  /\ UNCHANGED <<req_context, llm_input>>

(***************************************************************************)
(* ServerManager (core/server.py).  Its operations are coroutines; each    *)
(* call runs without interruption from one await to the next, and calls    *)
(* interleave at their awaits.                                             *)
(***************************************************************************)
\* most calls of ServerManager operations in one run
MaxOps == 3
\* most listeners created in one run
MaxListeners == 3

\* the configurations: the agents' names in get_all_agents() order
Configs == {<<>>, <<"A">>, <<"A", "B">>}

\* the names operations are called with
OpNames == {"A"}

VARIABLES
  config,             \* config_manager: the configured agents, in order
  servers,            \* self.servers: name -> listener (its index in listeners)
  listeners,          \* every uvicorn.Server created: [name, should_exit, state, owner]
  shutdown_event,     \* self._shutdown_event
  handlers_installed, \* whether signal_handler is installed
  calls               \* every call made: [op, name, pc, status, err, tasks, fault, lid,
                      \*                   teardowns, shutdown_tasks]

srvVars == <<config, servers, listeners, shutdown_event, handlers_installed, calls>>

SrvIdle ==
  /\ config = <<>>
  /\ servers = <<>>
  /\ listeners = <<>>
  /\ shutdown_event = FALSE
  /\ handlers_installed = FALSE
  /\ calls = <<>>

\* __init__ (lines 54-57)
SrvInit ==
  /\ config \in Configs
  /\ servers = <<>>
  /\ listeners = <<>>
  /\ shutdown_event = FALSE
  /\ handlers_installed = FALSE
  /\ calls = <<>>

Range(f) == {f[x] : x \in DOMAIN f}

\* self.servers[name] = server
Register(reg, name, lid) ==
  [n \in DOMAIN reg \cup {name} |-> IF n = name THEN lid ELSE reg[n]]

\* a removal that drops every entry
RemoveAll(reg, name) == <<>>

\* del self.servers[name]
Remove(reg, name) == [n \in DOMAIN reg \ {name} |-> reg[n]]

\* is_agent_running (line 218), get_running_agents (line 214)
is_agent_running(agent_name) == agent_name \in DOMAIN servers
get_running_agents == DOMAIN servers

\* _create_server's result: a server not yet serving; owner is the call that
\* awaits its serve() (0: serve() runs as a task of its own)
NewListener(name, owner) ==
  [name |-> name, should_exit |-> FALSE, state |-> "created", owner |-> owner]

Call(op, name, at, status, err) ==
  [op |-> op, name |-> name, pc |-> at, status |-> status, err |-> err,
   tasks |-> <<>>, fault |-> None, lid |-> 0,
   teardowns |-> 0, shutdown_tasks |-> {}]

\* line 101: the double-start check of start_agent
AlreadyRunning(agent_name, reg) == agent_name \in DOMAIN reg

\* a start that writes the registry before the server is built
StartRegistryEager(reg, name, lid, built) == Register(reg, name, lid)

\* lines 105-106: self.servers[agent_name] = server is reached only when
\* _create_server returned
StartRegistry(reg, name, lid, built) ==
  IF built THEN Register(reg, name, lid) ELSE reg

\* start_agent, lines 101-109, up to await server.serve()
StartAgent(agent_name) ==
  /\ Len(calls) < MaxOps
  /\ Len(listeners) < MaxListeners
  /\ LET c == Len(calls) + 1
         lid == Len(listeners) + 1
     IN IF AlreadyRunning(agent_name, servers)
        THEN /\ calls' = Append(calls, Call("start_agent", agent_name, "end", "raised", "RuntimeError"))
             /\ UNCHANGED <<servers, listeners>>
        ELSE IF agent_name \notin Range(config)
        THEN /\ calls' = Append(calls, Call("start_agent", agent_name, "end", "raised", "KeyError"))
             /\ UNCHANGED <<servers, listeners>>
        ELSE \E built \in BOOLEAN :
               IF ~built
               THEN /\ calls' = Append(calls, Call("start_agent", agent_name, "end", "raised",
                                                   "create_server failed"))
                    /\ servers' = StartRegistry(servers, agent_name, lid, FALSE)
                    /\ UNCHANGED listeners
               ELSE /\ listeners' = Append(listeners, NewListener(agent_name, c))
                    /\ servers' = StartRegistry(servers, agent_name, lid, TRUE)
                    /\ calls' = Append(calls, [Call("start_agent", agent_name, "serve", "running", None)
                                                 EXCEPT !.lid = lid])
  /\ UNCHANGED <<config, shutdown_event, handlers_installed>>

\* a teardown that tells no server to exit
SignalNone(ls, reg) == ls

\* shutdown_all, lines 179-182: every registered server is told to exit
SignalAll(ls, reg) ==
  [i \in DOMAIN ls |-> IF i \in Range(reg) THEN [ls[i] EXCEPT !.should_exit = TRUE] ELSE ls[i]]

\* shutdown_all up to its await (lines 175-185) for call c: it suspends in
\* gather when there is a server to stop, and otherwise clears at once.
\* teardowns counts the entries into shutdown_all made by the call, and
\* shutdown_tasks holds the servers it made a shutdown task for (line 182).
ShutdownAllBegin(c, cs, ls, reg) ==
  /\ listeners' = SignalAll(ls, reg)
  /\ IF DOMAIN reg # {}
     THEN /\ calls' = [cs EXCEPT ![c].pc = "gather",
                                 ![c].teardowns = @ + 1,
                                 ![c].shutdown_tasks = Range(reg)]
          /\ servers' = reg
     ELSE /\ calls' = [cs EXCEPT ![c].pc = "end", ![c].status = "returned",
                                 ![c].teardowns = @ + 1]
          /\ servers' = <<>>

\* the start_all loop (lines 127-136) over the first m agents
LoopListeners(ls, m) == ls \o [i \in 1..m |-> NewListener(config[i], 0)]
LoopServers(reg, ls, m) ==
  [n \in DOMAIN reg \cup {config[i] : i \in 1..m} |->
     IF \E i \in 1..m : config[i] = n
     THEN Len(ls) + (CHOOSE i \in 1..m : config[i] = n /\ \A j \in (i + 1)..m : config[j] # n)
     ELSE reg[n]]
LoopTasks(ls, m) == [i \in 1..m |-> Len(ls) + i]

\* start_all, lines 117-151, up to its first await.  failAt is the agent whose
\* _create_server raises (0: none does).
StartAll ==
  /\ Len(calls) < MaxOps
  /\ Len(listeners) + Len(config) <= MaxListeners
  /\ LET c == Len(calls) + 1
     IN IF config = <<>>
        THEN /\ calls' = Append(calls, Call("start_all", None, "end", "returned", None))
             /\ UNCHANGED <<servers, listeners, handlers_installed>>
        ELSE \E failAt \in 0..Len(config) :
               IF failAt # 0
               THEN /\ listeners' = LoopListeners(listeners, failAt - 1)
                    /\ servers' = LoopServers(servers, listeners, failAt - 1)
                    /\ calls' = Append(calls,
                         [Call("start_all", None, "end", "raised", "create_server failed")
                            EXCEPT !.tasks = LoopTasks(listeners, failAt - 1),
                                   !.fault = config[failAt]])
                    /\ UNCHANGED handlers_installed
               ELSE LET ls == LoopListeners(listeners, Len(config))
                        reg == LoopServers(servers, listeners, Len(config))
                        cs == Append(calls, [Call("start_all", None, "wait", "running", None)
                                               EXCEPT !.tasks = LoopTasks(listeners, Len(config))])
                    IN /\ handlers_installed' = TRUE
                       /\ IF shutdown_event
                          THEN ShutdownAllBegin(c, cs, ls, reg)
                          ELSE /\ listeners' = ls
                               /\ servers' = reg
                               /\ calls' = cs
  /\ UNCHANGED <<config, shutdown_event>>

\* a wake-up after which start_all returns without calling shutdown_all
StartAllWakeReturns(c) ==
  /\ calls[c].op = "start_all" /\ calls[c].pc = "wait"
  /\ shutdown_event
  /\ calls' = [calls EXCEPT ![c].pc = "end", ![c].status = "returned"]
  /\ UNCHANGED <<config, servers, listeners, shutdown_event, handlers_installed>>

\* start_all, lines 146-151: the wait wakes and shutdown_all begins
StartAllWake(c) ==
  /\ calls[c].op = "start_all" /\ calls[c].pc = "wait"
  /\ shutdown_event
  /\ ShutdownAllBegin(c, calls, listeners, servers)
  /\ UNCHANGED <<config, shutdown_event, handlers_installed>>

\* shutdown_all called directly (MultiAgentServer.stop)
ShutdownAll ==
  /\ Len(calls) < MaxOps
  /\ ShutdownAllBegin(Len(calls) + 1,
                      Append(calls, Call("shutdown_all", None, "gather", "running", None)),
                      listeners, servers)
  /\ UNCHANGED <<config, shutdown_event, handlers_installed>>

\* shutdown_all after gather, lines 187-188
ShutdownAllEnd(c) ==
  /\ calls[c].pc = "gather"
  /\ servers' = <<>>
  /\ calls' = [calls EXCEPT ![c].pc = "end", ![c].status = "returned"]
  /\ UNCHANGED <<config, listeners, shutdown_event, handlers_installed>>

\* shutdown_agent, lines 160-168, up to await asyncio.sleep(0.1)
ShutdownAgent(agent_name) ==
  /\ Len(calls) < MaxOps
  /\ IF agent_name \notin DOMAIN servers
     THEN /\ calls' = Append(calls, Call("shutdown_agent", agent_name, "end", "returned", None))
          /\ UNCHANGED listeners
     ELSE /\ listeners' = [listeners EXCEPT ![servers[agent_name]].should_exit = TRUE]
          /\ calls' = Append(calls, Call("shutdown_agent", agent_name, "sleep", "running", None))
  /\ UNCHANGED <<config, servers, shutdown_event, handlers_installed>>

\* shutdown_agent, lines 170-171: del self.servers[agent_name]
ShutdownAgentEnd(c) ==
  /\ calls[c].op = "shutdown_agent" /\ calls[c].pc = "sleep"
  /\ IF calls[c].name \in DOMAIN servers
     THEN /\ servers' = Remove(servers, calls[c].name)
          /\ calls' = [calls EXCEPT ![c].pc = "end", ![c].status = "returned"]
     ELSE /\ servers' = servers
          /\ calls' = [calls EXCEPT ![c].pc = "end", ![c].status = "raised",
                                    ![c].err = "KeyError"]
  /\ UNCHANGED <<config, listeners, shutdown_event, handlers_installed>>

\* a handler that, besides setting the event, runs the teardown itself
SignalTearsDown ==
  /\ handlers_installed
  /\ shutdown_event' = TRUE
  /\ listeners' = SignalAll(listeners, servers)
  /\ calls' = [c \in DOMAIN calls |->
                IF calls[c].op = "start_all" /\ calls[c].pc = "wait"
                THEN [calls[c] EXCEPT !.teardowns = @ + 1]
                ELSE calls[c]]
  /\ UNCHANGED <<config, servers, handlers_installed>>

\* signal_handler, lines 192-194, once start_all has installed it
Signal ==
  /\ handlers_installed
  /\ shutdown_event' = TRUE
  /\ UNCHANGED <<config, servers, listeners, handlers_installed, calls>>

\* the call, if any, that awaits listener l's serve()
EndOwner(l, status, err) ==
  IF listeners[l].owner # 0
  THEN [calls EXCEPT ![listeners[l].owner].pc = "end",
                     ![listeners[l].owner].status = status,
                     ![listeners[l].owner].err = err]
  ELSE calls

\* server.serve() starts: the listener binds and serves, or fails to bind
ListenerStartup(l) ==
  /\ listeners[l].state = "created"
  /\ \E bound \in BOOLEAN :
       IF bound
       THEN /\ listeners' = [listeners EXCEPT ![l].state = "serving"]
            /\ UNCHANGED calls
       ELSE /\ listeners' = [listeners EXCEPT ![l].state = "failed"]
            /\ calls' = EndOwner(l, "raised", "bind failed")
  /\ UNCHANGED <<config, servers, shutdown_event, handlers_installed>>

\* server.serve() returns once should_exit is set
ListenerExit(l) ==
  /\ listeners[l].state = "serving" /\ listeners[l].should_exit
  /\ listeners' = [listeners EXCEPT ![l].state = "exited"]
  /\ calls' = EndOwner(l, "returned", None)
  /\ UNCHANGED <<config, servers, shutdown_event, handlers_installed>>

(***************************************************************************)
(* The specifications.                                                     *)
(***************************************************************************)
vars == <<execVars, invVars, renderVars, prepVars, pairVars, srvVars>>

ExecIdle ==
  /\ mode = "native" /\ max_tool_calls = 0
  /\ request = [has_message |-> FALSE, parts |-> <<>>]
  /\ pc = "idle" /\ updater = FALSE /\ messages = <<>> /\ iteration = 0
  /\ response = NoResponse /\ tc = 0 /\ tool_results = <<>> /\ result = None
  /\ outcome = "running" /\ exc = None /\ trace = <<>>

ExecFrame == UNCHANGED <<invVars, renderVars, prepVars, pairVars, srvVars>>
SrvFrame == UNCHANGED <<execVars, invVars, renderVars, prepVars, pairVars>>
PrepareFrame == UNCHANGED <<execVars, invVars, renderVars, pairVars, srvVars>>

\* one call of execute
Init == ExecInit /\ InvokeIdle /\ RenderIdle /\ PrepareIdle /\ PairIdle /\ SrvIdle
Next ==
  \/ CreateUpdater /\ ExecFrame
  \/ EnsureToolsLoaded /\ ExecFrame
  \/ PrepareInput /\ ExecFrame
  \/ NativeChat /\ ExecFrame
  \/ NativeTool /\ ExecFrame
  \/ PromptChat /\ ExecFrame
  \/ PromptTool /\ ExecFrame
  \/ AddArtifact /\ ExecFrame
  \/ CompleteTask /\ ExecFrame
Spec == Init /\ [][Next]_vars

\* one call of execute_mcp_tool_native
InitInvoke == ExecIdle /\ InvokeInit /\ RenderIdle /\ PrepareIdle /\ PairIdle /\ SrvIdle
NextInvoke == Invoke /\ UNCHANGED <<execVars, renderVars, prepVars, pairVars, srvVars>>
SpecInvoke == InitInvoke /\ [][NextInvoke]_vars

\* one call of convert_mcp_tools_to_openai
InitRender == ExecIdle /\ InvokeIdle /\ RenderInit /\ PrepareIdle /\ PairIdle /\ SrvIdle
NextRender == Convert /\ UNCHANGED <<execVars, invVars, prepVars, pairVars, srvVars>>
SpecRender == InitRender /\ [][NextRender]_vars

\* one call of each executor's prepare_input on the same context
InitPrepare == ExecIdle /\ InvokeIdle /\ RenderIdle /\ PrepareInit /\ PairIdle /\ SrvIdle
NextPrepare ==
  \/ PrepareLLM /\ PrepareFrame
  \/ PrepareMCP /\ PrepareFrame
SpecPrepare == InitPrepare /\ [][NextPrepare]_vars

\* two concurrent loops
PairFrame == UNCHANGED <<execVars, invVars, renderVars, prepVars, srvVars>>
InitPair ==
  ExecIdle /\ InvokeIdle /\ RenderIdle /\ PrepareIdle /\ PairInit /\ SrvIdle
NextPair ==
  \/ (\E i \in LoopIds : PairStart(i)) /\ PairFrame
  \/ (\E i \in LoopIds : PairChat(i)) /\ PairFrame
  \/ (\E i \in LoopIds : PairTool(i)) /\ PairFrame
SpecPair == InitPair /\ [][NextPair]_vars

\* a ServerManager and the calls made on it
InitSrv == ExecIdle /\ InvokeIdle /\ RenderIdle /\ PrepareIdle /\ PairIdle /\ SrvInit
NextSrv ==
  \/ (\E n \in OpNames : StartAgent(n)) /\ SrvFrame
  \/ StartAll /\ SrvFrame
  \/ (\E c \in DOMAIN calls : StartAllWake(c)) /\ SrvFrame
  \/ ShutdownAll /\ SrvFrame
  \/ (\E c \in DOMAIN calls : ShutdownAllEnd(c)) /\ SrvFrame
  \/ (\E n \in OpNames : ShutdownAgent(n)) /\ SrvFrame
  \/ (\E c \in DOMAIN calls : ShutdownAgentEnd(c)) /\ SrvFrame
  \/ Signal /\ SrvFrame
  \/ (\E l \in DOMAIN listeners : ListenerStartup(l)) /\ SrvFrame
  \/ (\E l \in DOMAIN listeners : ListenerExit(l)) /\ SrvFrame
SpecSrv == InitSrv /\ [][NextSrv]_vars

\* the same under the event loop's scheduling: a coroutine that can resume
\* (its event is set, its gather is done) is resumed
SrvFairness ==
  \A c \in 1..MaxOps :
    /\ WF_vars(c \in DOMAIN calls /\ StartAllWake(c) /\ SrvFrame)
    /\ WF_vars(c \in DOMAIN calls /\ ShutdownAllEnd(c) /\ SrvFrame)
SpecSrvFair == InitSrv /\ [][NextSrv]_vars /\ SrvFairness

(***************************************************************************)
(* What a run of execute did, read off its trace.                          *)
(***************************************************************************)
ChatIdx == {i \in DOMAIN trace : trace[i].ev = "chat"}
ModelCalls == Cardinality(ChatIdx)
ToolRuns == SelectSeq(trace, LAMBDA e : e.ev = "tool")
ThinkingTexts == {ThinkingText(n) : n \in 1..(MaxCalls + 1)}

\* a response that requested tool calls is followed at once by the summary status
RequestedTools(i) ==
  /\ trace[i].ok
  /\ i < Len(trace)
  /\ trace[i + 1].ev = "status"
  /\ trace[i + 1].text \in ThinkingTexts

FirstChat == CHOOSE i \in ChatIdx : \A j \in ChatIdx : i <= j

\* the loop was entered and is over: it returned a string or raised
LoopReturned == result # None
LoopRaised == pc = "done" /\ outcome = "raised" /\ result = None /\ ModelCalls >= 1

\* the tool calls requested by the assistant messages of the history, in order
RECURSIVE Requested(_)
Requested(msgs) ==
  IF msgs = <<>> THEN <<>>
  ELSE (IF Head(msgs).role = "assistant"
        THEN (IF mode = "native" THEN Head(msgs).tool_calls
              ELSE parse_tool_calls(Head(msgs).content))
        ELSE <<>>) \o Requested(Tail(msgs))

ToolMessages == SelectSeq(messages, LAMBDA m : m.role = "tool")
AssistantIdx == {a \in DOMAIN messages : messages[a].role = "assistant"}

(***************************************************************************)
(* C1: in both conventions, if every model response requests at least one *)
(* tool call, the loop makes exactly max_tool_calls + 1 model invocations  *)
(* and returns the fixed fallback text, not an error.                      *)
(* The code breaks it: a native tool call whose arguments json.loads       *)
(* cannot decode (the fault of C5) ends the loop with an exception.        *)
(***************************************************************************)
C1_AlwaysToolsExhausts ==
  ((LoopReturned \/ LoopRaised) /\ \A i \in ChatIdx : RequestedTools(i))
    => (ModelCalls = max_tool_calls + 1 /\ result = FallbackText)

(***************************************************************************)
(* C2 as stated: when the first model response carries no tool calls,      *)
(* whatever its content, the loop ends after one model invocation and no   *)
(* tool invocation and returns that content verbatim.                      *)
(***************************************************************************)
FirstResponseToolFree ==
  /\ ModelCalls >= 1
  /\ trace[FirstChat].ok
  /\ ~RequestedTools(FirstChat)

C2_Original ==
  FirstResponseToolFree
    => (ModelCalls = 1 /\ ToolRuns = <<>> /\ result # None /\ result = response.content)

(***************************************************************************)
(* C2 amended: when the first model response carries no tool calls and a   *)
(* non-empty text, the loop ends after exactly one model invocation and no *)
(* tool invocation and returns that text verbatim; the native convention   *)
(* returns "No response content" for an empty or absent content, the       *)
(* prompt convention returns an empty text as it is.                       *)
(***************************************************************************)
C2_FirstFinalAnswer ==
  FirstResponseToolFree
    => /\ ModelCalls = 1
       /\ ToolRuns = <<>>
       /\ Truthy(response.content) => result = response.content
       /\ (mode = "native" /\ ~Truthy(response.content)) => result = NoResponseContent
       /\ (mode = "prompt" /\ response.content = "") => result = ""

C2_Witness ==
  /\ FirstResponseToolFree
  /\ response.content = "hi"
  /\ result = "hi"
  /\ pc = "done" /\ outcome = "returned"

(***************************************************************************)
(* C3: the tool calls of one response are executed one at a time in        *)
(* request order, and the i-th result appended to the history answers the  *)
(* i-th requested call, whatever mix of successes and failures.            *)
(***************************************************************************)
C3_ResultsInRequestOrder ==
  /\ mode = "native" =>
       /\ Len(ToolRuns) = Len(ToolMessages)
       /\ Len(ToolMessages) <= Len(Requested(messages))
       /\ \A i \in 1..Len(ToolMessages) :
            /\ ToolMessages[i].tool_call_id = Requested(messages)[i].id
            /\ ToolRuns[i].id = Requested(messages)[i].id
            /\ ToolRuns[i].key = Requested(messages)[i].function.name
            /\ ToolMessages[i].content = ToolRuns[i].value
       /\ \A a \in AssistantIdx : \A j \in 1..Len(messages[a].tool_calls) :
            a + j <= Len(messages) =>
              /\ messages[a + j].role = "tool"
              /\ messages[a + j].tool_call_id = messages[a].tool_calls[j].id
       /\ pc \in {"chat", "artifact"} => Len(ToolMessages) = Len(Requested(messages))
  /\ (mode = "prompt" /\ AssistantIdx # {}) =>
       LET a == CHOOSE x \in AssistantIdx : \A y \in AssistantIdx : y <= x
           reqs == parse_tool_calls(messages[a].content)
           runs == SubSeq(ToolRuns, Len(ToolRuns) - Len(tool_results) + 1, Len(ToolRuns))
       IN /\ Len(tool_results) <= Len(reqs)
          /\ Len(tool_results) <= Len(ToolRuns)
          /\ \A i \in 1..Len(tool_results) :
               /\ tool_results[i].tool = reqs[i].tool
               /\ runs[i].key = reqs[i].tool
               /\ runs[i].value = FormatOne(tool_results[i])
          /\ a < Len(messages) =>
               /\ Len(messages) = a + 1
               /\ Len(tool_results) = Len(reqs)
               /\ messages[a + 1] = [role |-> "user",
                                      content |-> format_tool_results(tool_results)]
          /\ pc \in {"chat", "artifact"} => a < Len(messages)

C3_Witness ==
  \E a \in AssistantIdx :
    /\ mode = "native"
    /\ Len(messages[a].tool_calls) = 2
    /\ a + 2 <= Len(messages)
    /\ messages[a + 1].content \in ErrorTexts
    /\ messages[a + 2].content = "5"

(***************************************************************************)
(* C4: if no model invocation fails then, whatever the model and the tools *)
(* do, the loop makes at most max_tool_calls + 1 model invocations and     *)
(* returns a string, never an exception.                                   *)
(* The code breaks it: undecodable tool-call arguments (the fault of C5)   *)
(* and, in the prompt convention, a response with no content raise.        *)
(***************************************************************************)
C4_LoopReturnsString ==
  /\ ModelCalls <= max_tool_calls + 1
  /\ LoopRaised => exc = "model call failed"

(***************************************************************************)
(* C5: a fault in one requested tool call (unknown key, undecodable        *)
(* arguments, transport failure) never escapes the loop: the call gets an  *)
(* error result in the history, the other calls of the iteration run, and  *)
(* the next model invocation takes place.                                  *)
(* The code breaks it: json.loads (line 210) is outside any try.           *)
(***************************************************************************)
C5_ToolFaultsContained ==
  /\ outcome = "raised" => exc # "JSONDecodeError"
  /\ (mode = "native" /\ pc \in {"chat", "artifact", "complete", "done"}) =>
       /\ Len(ToolMessages) = Len(Requested(messages))
       /\ \A i \in 1..Len(ToolMessages) :
            ~JsonLoadsOk(Requested(messages)[i].function.arguments)
              => ToolMessages[i].content \in ErrorTexts

(***************************************************************************)
(* C6: execute_mcp_tool_native never raises; for a key absent from the     *)
(* catalog it returns an error result naming the key and makes no          *)
(* transport call; for a failure of the endpoint lookup or of the remote   *)
(* call it returns an error result carrying the failure's description.     *)
(***************************************************************************)
C6_InvokerNeverRaises ==
  inv_out # <<>> =>
    LET r == inv_out[1]
    IN /\ ~r.raised
       /\ inv_in.tool_key \notin DOMAIN ToolsCache =>
            /\ r.value = JsonDumpsError(NotFoundMsg(inv_in.tool_key))
            /\ r.lookups = 0 /\ r.remote_calls = 0
       /\ (inv_in.tool_key \in DOMAIN ToolsCache /\ inv_in.env.fault # "none") =>
            r.value = JsonDumpsError(inv_in.env.error)

C6_Witness ==
  /\ inv_out # <<>>
  /\ inv_in.tool_key \in DOMAIN ToolsCache
  /\ inv_in.env.fault = "call"
  /\ inv_out[1].value = JsonDumpsError("Connection refused")

(***************************************************************************)
(* C7: whenever execute ends by raising, whatever step failed, a failure   *)
(* notification was delivered to the sink before.                          *)
(* The code breaks it: when TaskUpdater(...) itself raises, the handler    *)
(* reads the unbound local updater and raises before it notifies.          *)
(***************************************************************************)
C7_FailureNotifiedBeforeRaise ==
  outcome = "raised" => (trace # <<>> /\ trace[Len(trace)].ev = "failed")

(***************************************************************************)
(* C8: a failing model invocation is not swallowed: nothing is invoked     *)
(* after it, no artifact and no completion is emitted, and execute raises  *)
(* the failure after the failure notification.                             *)
(***************************************************************************)
C8_ModelFailurePropagates ==
  \A i \in ChatIdx :
    ~trace[i].ok =>
      /\ Len(trace) = i + 1
      /\ trace[i + 1] = Failed(ErrorPrefix \o "model call failed")
      /\ pc = "done" /\ outcome = "raised" /\ exc = "model call failed"
      /\ \A j \in DOMAIN trace : trace[j].ev \notin {"artifact", "complete"}

C8_Witness ==
  /\ ModelCalls = 2
  /\ ToolRuns # <<>>
  /\ \E i \in ChatIdx : ~trace[i].ok
  /\ outcome = "raised"

(***************************************************************************)
(* C9: start_agent on a running agent fails and creates no listener, and   *)
(* over any calls of start_agent, start_all, shutdown_agent and            *)
(* shutdown_all no listener is created for a name that has a registry      *)
(* entry.                                                                  *)
(* The code breaks it: start_all (lines 127-129) creates and registers a   *)
(* listener for every configured agent without looking at self.servers.    *)
(***************************************************************************)
C9_NoDoubleStart ==
  [][\A l \in DOMAIN listeners' \ DOMAIN listeners :
       listeners'[l].name \notin DOMAIN servers]_vars

(***************************************************************************)
(* C10: when one agent's listener cannot be constructed or bound during    *)
(* start_all, every other configured agent's listener is still created and *)
(* registered, and the failure is not raised out of start_all.             *)
(* The code breaks it: _create_server is called in the loop with no try,   *)
(* so its exception leaves start_all and the later agents are not started. *)
(***************************************************************************)
C10_StartAllIsolatesFailures ==
  \A c \in DOMAIN calls :
    calls[c].op = "start_all" =>
      /\ calls[c].status # "raised"
      /\ \A n \in Range(config) \ {calls[c].fault} :
           \E t \in Range(calls[c].tasks) : listeners[t].name = n

\* the calls that take a step: the new call, or a call whose record changes
Stepping(op) ==
  {c \in DOMAIN calls' :
     /\ calls'[c].op = op
     /\ (c \notin DOMAIN calls \/ calls'[c] # calls[c])}

(***************************************************************************)
(* C11: shutdown_agent on an agent that is not running raises nothing and  *)
(* changes no state; when shutdown_agent completes the name has no         *)
(* registry entry; and no step of shutdown_agent touches another agent's   *)
(* registry entry or another agent's should_exit flag.                     *)
(***************************************************************************)
C11_StopIsFramed ==
  [][\A c \in Stepping("shutdown_agent") :
       LET n == calls'[c].name
       IN /\ (c \notin DOMAIN calls /\ n \notin DOMAIN servers) =>
               /\ calls'[c].pc = "end" /\ calls'[c].status = "returned"
               /\ servers' = servers /\ listeners' = listeners
               /\ shutdown_event' = shutdown_event
          /\ calls'[c].pc = "end" => n \notin DOMAIN servers'
          /\ DOMAIN servers' \ {n} = DOMAIN servers \ {n}
          /\ \A m \in DOMAIN servers \ {n} : servers'[m] = servers[m]
          /\ DOMAIN listeners' = DOMAIN listeners
          /\ \A l \in DOMAIN listeners :
               listeners[l].name # n => listeners'[l] = listeners[l]]_vars

C11_Witness ==
  /\ \E c \in DOMAIN calls :
       /\ calls[c].op = "shutdown_agent" /\ calls[c].name = "A"
       /\ calls[c].pc = "end" /\ calls[c].status = "returned"
  /\ "A" \notin DOMAIN servers
  /\ "B" \in DOMAIN servers
  /\ ~listeners[servers["B"]].should_exit
  /\ \E l \in DOMAIN listeners : listeners[l].name = "A" /\ listeners[l].should_exit

(***************************************************************************)
(* C12: shutdown_all tells every server registered when it begins to exit, *)
(* a server told to exit stays told, and when shutdown_all completes the   *)
(* registry is empty.                                                      *)
(***************************************************************************)
C12_StopAllClears ==
  [][/\ \A c \in Stepping("shutdown_all") \cup Stepping("start_all") :
          /\ (calls'[c].teardowns = 1 /\ (c \notin DOMAIN calls \/ calls[c].teardowns = 0)) =>
               /\ \A l \in Range(servers') : listeners'[l].should_exit
               /\ calls'[c].pc = "gather" => calls'[c].shutdown_tasks = Range(servers')
          /\ (calls'[c].pc = "end" /\ calls'[c].teardowns = 1) =>
               /\ servers' = <<>>
               /\ \A l \in calls'[c].shutdown_tasks : listeners'[l].should_exit
     /\ \A l \in DOMAIN listeners : listeners[l].should_exit => listeners'[l].should_exit]_vars

C12_Witness ==
  \E c \in DOMAIN calls :
    /\ calls[c].op = "shutdown_all"
    /\ calls[c].pc = "end" /\ calls[c].status = "returned"
    /\ Cardinality(calls[c].shutdown_tasks) = 2
    /\ servers = <<>>
    /\ \A l \in calls[c].shutdown_tasks : listeners[l].should_exit

(***************************************************************************)
(* C13: whatever termination signals arrive during one start_all, before,  *)
(* during or after its teardown, start_all enters shutdown_all at most     *)
(* once, and exactly once when it has started servers and returns.         *)
(***************************************************************************)
C13_TeardownOnce ==
  \A c \in DOMAIN calls :
    calls[c].op = "start_all" =>
      /\ calls[c].teardowns <= 1
      /\ calls[c].pc = "wait" => calls[c].teardowns = 0
      /\ calls[c].pc = "gather" => calls[c].teardowns = 1
      /\ (calls[c].status = "returned" /\ calls[c].tasks # <<>>) => calls[c].teardowns = 1

C13_Witness ==
  \E c \in DOMAIN calls :
    /\ calls[c].op = "start_all" /\ calls[c].pc = "gather"
    /\ calls[c].teardowns = 1
    /\ shutdown_event /\ ENABLED Signal

(***************************************************************************)
(* C14: if a termination signal has set the shutdown event while start_all *)
(* is in its wait then, under fair scheduling, start_all wakes, runs       *)
(* shutdown_all once, every server of the registry is told to exit, the    *)
(* registry becomes empty and start_all returns.                           *)
(***************************************************************************)
C14_SignalStopsAll ==
  \A c \in 1..MaxOps :
    (c \in DOMAIN calls /\ calls[c].op = "start_all" /\ calls[c].pc = "wait" /\ shutdown_event)
      ~> (/\ c \in DOMAIN calls
          /\ calls[c].pc = "end" /\ calls[c].status = "returned"
          /\ calls[c].teardowns = 1
          /\ servers = <<>>
          /\ \A l \in calls[c].shutdown_tasks : listeners[l].should_exit)

C14_Witness ==
  \E c \in DOMAIN calls :
    /\ calls[c].op = "start_all"
    /\ calls[c].pc = "end" /\ calls[c].status = "returned"
    /\ calls[c].shutdown_tasks # {}
    /\ shutdown_event
    /\ servers = <<>>
    /\ \A l \in calls[c].shutdown_tasks : listeners[l].should_exit

(***************************************************************************)
(* C15: registry mutations are serialized: no call fails because another   *)
(* call changed the registry between its check and its registration or     *)
(* removal; two concurrent shutdown_agent calls for a running agent both   *)
(* finish without error.                                                   *)
(* The code breaks it: shutdown_agent checks the registry (line 160),      *)
(* sleeps (line 168) and then deletes the entry (line 170) with no lock,   *)
(* so the second of two concurrent calls raises KeyError.                  *)
(***************************************************************************)
C15_StopsSerialized ==
  \A c \in DOMAIN calls :
    calls[c].op = "shutdown_agent" => calls[c].status # "raised"

(***************************************************************************)
(* C16: an agent is reported running exactly when its listener is running: *)
(* a registered agent's server has not failed or ended on its own, and the *)
(* name of every server that serves and was not told to exit is in the     *)
(* registry.                                                               *)
(* The code breaks it: the entry is added before serve() starts and        *)
(* nothing removes it when serve() fails to bind; and clear() (line 187)   *)
(* drops entries of servers that were registered during the gather and     *)
(* never told to exit.                                                     *)
(***************************************************************************)
C16_RunningIffRegistered ==
  /\ \A n \in get_running_agents :
       is_agent_running(n) /\ listeners[servers[n]].state # "failed"
  /\ \A l \in DOMAIN listeners :
       (listeners[l].state = "serving" /\ ~listeners[l].should_exit)
         => is_agent_running(listeners[l].name)

(***************************************************************************)
(* C17: the native rendering has exactly one entry per tool of the cache,  *)
(* named by the tool's key; a declared input schema is the entry's         *)
(* parameters unchanged, a tool with no schema gets {type: object,         *)
(* properties: {}}; and the cache handed in is left as it was.             *)
(***************************************************************************)
C17_RenderingRoundTrip ==
  [][/\ tools_cache' = tools_cache
     /\ openai_tools' # <<>> =>
          LET out == openai_tools'[1].value
          IN /\ Len(out) = Len(tools_cache)
             /\ \A i \in DOMAIN tools_cache :
                  LET tool == tools_cache[i].tool
                      fn == out[i].function
                  IN /\ out[i].type = "function"
                     /\ fn.name = tools_cache[i].tool_key
                     /\ (tool.has_inputSchema /\ tool.inputSchema \in DeclaredSchemas)
                          => fn.parameters = tool.inputSchema
                     /\ (~tool.has_inputSchema \/ tool.inputSchema.is_none
                          \/ tool.inputSchema = Dict(<<>>))
                          => fn.parameters =
                               Dict(<<[key |-> "type", value |-> "object"],
                                      [key |-> "properties", value |-> "{}"]>>)
             /\ \A k \in RenderKeys :
                  Cardinality({i \in DOMAIN out : out[i].function.name = k})
                    = Cardinality({i \in DOMAIN tools_cache : tools_cache[i].tool_key = k})]_vars

C17_Witness ==
  /\ openai_tools # <<>>
  /\ Len(tools_cache) = 2
  /\ tools_cache[1].tool.has_inputSchema /\ tools_cache[1].tool.inputSchema \in DeclaredSchemas
  /\ ~tools_cache[2].tool.has_inputSchema
  /\ openai_tools[1].value[1].function.parameters = tools_cache[1].tool.inputSchema
  /\ openai_tools[1].value[2].function.parameters = EmptyObjectSchema

(***************************************************************************)
(* C18: the rendering has no error outcome: for every cache, also with     *)
(* tools whose description or input schema is None or empty, it returns a  *)
(* list in which such a tool has the default description "Tool: <key>"     *)
(* and the empty-object schema.                                            *)
(***************************************************************************)
C18_RenderingNeverRejects ==
  openai_tools # <<>> =>
    /\ ~openai_tools[1].raised
    /\ Len(openai_tools[1].value) = Len(tools_cache)
    /\ \A i \in DOMAIN tools_cache :
         LET tool == tools_cache[i].tool
             fn == openai_tools[1].value[i].function
         IN /\ fn.description # None /\ fn.description # ""
            /\ tool.description \in {None, ""}
                 => fn.description = "Tool: " \o tools_cache[i].tool_key
            /\ tool.description \notin {None, ""} => fn.description = tool.description
            /\ ~fn.parameters.is_none /\ fn.parameters.items # <<>>

C18_Witness ==
  /\ openai_tools # <<>>
  /\ ~openai_tools[1].raised
  /\ \E i \in DOMAIN tools_cache :
       /\ tools_cache[i].tool.description = None
       /\ tools_cache[i].tool.has_inputSchema /\ tools_cache[i].tool.inputSchema = Dict(<<>>)
       /\ openai_tools[1].value[i].function.description = "Tool: " \o tools_cache[i].tool_key
       /\ openai_tools[1].value[i].function.parameters = EmptyObjectSchema

\* a call of execute_mcp_tool_native whose remote call succeeded
RemoteSucceeded ==
  /\ inv_out # <<>>
  /\ inv_in.tool_key \in DOMAIN ToolsCache
  /\ inv_in.env.fault = "none"

\* the textual fragments of the remote result, in their order
Fragments == SelectSeq(inv_in.env.result[1].content, LAMBDA item : item # NoText)

NeutralTexts == {"Tool executed successfully", "Tool executed successfully (no output)"}

(***************************************************************************)
(* C19 as stated: after a successful remote call the result is the         *)
(* structured output, serialized, if one is present; otherwise the text    *)
(* fragments put together in their order; otherwise a neutral message.     *)
(***************************************************************************)
C19_Original ==
  RemoteSucceeded =>
    LET sc == inv_in.env.result[1].structuredContent
        v == inv_out[1].value
    IN IF ~sc.is_none THEN v = JsonDumps(sc)
       ELSE IF Fragments # <<>> THEN v = JoinLines(Fragments)
       ELSE v \in NeutralTexts

(***************************************************************************)
(* C19 amended: after a successful remote call the result is a text: the   *)
(* structured output serialized as JSON if it is present and not empty;    *)
(* otherwise the text fragments joined by newlines in their order, if      *)
(* there is one; otherwise a neutral message, "Tool executed successfully" *)
(* when there is content without text and "Tool executed successfully (no  *)
(* output)" when there is no content.                                      *)
(***************************************************************************)
C19_ResultPrecedence ==
  RemoteSucceeded =>
    LET r == inv_in.env.result[1]
        sc == r.structuredContent
        v == inv_out[1].value
    IN /\ ~inv_out[1].raised
       /\ v \in STRING
       /\ (~sc.is_none /\ sc.items # <<>>) => v = JsonDumps(sc)
       /\ (sc.is_none \/ sc.items = <<>>) =>
            /\ Fragments # <<>> => v = JoinLines(Fragments)
            /\ (Fragments = <<>> /\ r.content # <<>>) => v = "Tool executed successfully"
            /\ r.content = <<>> => v = "Tool executed successfully (no output)"

C19_Witness ==
  /\ RemoteSucceeded
  /\ inv_in.env.result[1].structuredContent
       = Dict(<<[key |-> "sum", value |-> 5], [key |-> "carry", value |-> 0]>>)
  /\ inv_in.env.result[1].content = <<"2", NoText, "3">>
  /\ inv_out[1].value = "{\"sum\": 5, \"carry\": 0}"

ArtifactIdx == {i \in DOMAIN trace : trace[i].ev = "artifact"}
CompleteIdx == {i \in DOMAIN trace : trace[i].ev = "complete"}
StatusIdx == {i \in DOMAIN trace : trace[i].ev = "status"}

(***************************************************************************)
(* C20: when the loop has returned its answer, execute emits that answer,  *)
(* unchanged, as one artifact, after every progress notification of the    *)
(* run and before the completion notification; no artifact is emitted      *)
(* otherwise, and none twice.                                              *)
(***************************************************************************)
C20_AnswerIsTheArtifact ==
  /\ Cardinality(ArtifactIdx) <= 1
  /\ \A i \in ArtifactIdx :
       /\ LoopReturned /\ trace[i].text = result
       /\ \A j \in StatusIdx : j < i
       /\ \A j \in DOMAIN trace : j > i => trace[j].ev \in {"complete", "failed"}
  /\ \A i \in CompleteIdx : i - 1 \in ArtifactIdx
  /\ pc = "complete" => ArtifactIdx = {Len(trace)}
  /\ (pc = "done" /\ outcome = "returned" /\ LoopReturned) =>
       /\ Cardinality(ArtifactIdx) = 1
       /\ CompleteIdx = {Len(trace)}

C20_Witness ==
  /\ pc = "done" /\ outcome = "returned"
  /\ result = FallbackText
  /\ \E i \in ArtifactIdx : trace[i].text = FallbackText /\ i = Len(trace) - 1
  /\ Cardinality(StatusIdx) >= 3
  /\ trace[Len(trace)].ev = "complete"

\* the texts of the turns of a context that have text: the prior turns in
\* chronological order, then the current turn
RECURSIVE TurnTexts(_)
TurnTexts(turns) ==
  IF turns = <<>> THEN <<>>
  ELSE (IF ConcatParts(Head(turns).parts) # "" THEN <<ConcatParts(Head(turns).parts)>> ELSE <<>>)
       \o TurnTexts(Tail(turns))
AllTurnTexts == TurnTexts(req_context.history) \o TurnTexts(<<req_context.message>>)

RECURSIVE ConcatTexts(_)
ConcatTexts(texts) == IF texts = <<>> THEN "" ELSE Head(texts) \o ConcatTexts(Tail(texts))

(***************************************************************************)
(* C21 as stated: both executors build the conversation input from the     *)
(* texts of all prior turns in chronological order followed by the current *)
(* turn, a turn's text being its textual parts joined in part order.       *)
(***************************************************************************)
C21_Original ==
  /\ llm_input # <<>> =>
       /\ Len(llm_input[1].messages) = Len(AllTurnTexts)
       /\ \A i \in DOMAIN AllTurnTexts : llm_input[1].messages[i].content = AllTurnTexts[i]
  /\ (mcp_input # <<>> /\ TurnTexts(<<req_context.message>>) # <<>>)
       => mcp_input[1] = ConcatTexts(AllTurnTexts)

(***************************************************************************)
(* C21 amended: the LLM executor builds the input from every prior turn    *)
(* that has text, in chronological order, followed by the current turn if  *)
(* it has text, a turn's text being its textual parts joined in part       *)
(* order, the role being user for a user turn and assistant for any other, *)
(* and the input being None when no turn has text; the MCP executor builds *)
(* it from the current turn alone, None when that has no text.             *)
(***************************************************************************)
C21_PreparedInput ==
  /\ llm_input # <<>> =>
       /\ llm_input[1].is_none <=> AllTurnTexts = <<>>
       /\ Len(llm_input[1].messages) = Len(AllTurnTexts)
       /\ \A i \in DOMAIN AllTurnTexts : llm_input[1].messages[i].content = AllTurnTexts[i]
       /\ LET spoken == SelectSeq(req_context.history, LAMBDA t : ConcatParts(t.parts) # "")
          IN /\ \A i \in DOMAIN spoken :
                  llm_input[1].messages[i].role
                    = (IF spoken[i].role = "user" THEN "user" ELSE "assistant")
             /\ Len(AllTurnTexts) > Len(spoken) =>
                  llm_input[1].messages[Len(AllTurnTexts)].role = "user"
  /\ mcp_input # <<>> =>
       mcp_input[1] = (IF TurnTexts(<<req_context.message>>) = <<>> THEN None
                       ELSE TurnTexts(<<req_context.message>>)[1])

C21_Witness ==
  /\ llm_input # <<>> /\ mcp_input # <<>>
  /\ Len(req_context.history) = 2
  /\ req_context.history[1].role = "user" /\ req_context.history[2].role = "agent"
  /\ llm_input[1].messages = <<[role |-> "user", content |-> "add "],
                               [role |-> "assistant", content |-> "1+1"],
                               [role |-> "user", content |-> "2+3?"]>>
  /\ mcp_input[1] = "2+3?"

LastChat == CHOOSE i \in ChatIdx : \A j \in ChatIdx : j <= i

(***************************************************************************)
(* C22: in the prompt convention a response whose tool-call encoding does  *)
(* not parse carries no tool calls: the loop returns that text as the      *)
(* answer, runs no tool after it and raises nothing.                       *)
(***************************************************************************)
C22_MalformedIsFinal ==
  (mode = "prompt" /\ response.content = MalformedText) =>
    /\ pc \in {"artifact", "complete", "done"}
    /\ result = MalformedText
    /\ trace[LastChat].ok
    /\ \A j \in DOMAIN trace : j > LastChat => trace[j].ev \notin {"tool", "chat", "status"}
    /\ outcome = "raised" => exc \in {"add_artifact failed", "complete failed"}

C22_Witness ==
  /\ mode = "prompt"
  /\ response.content = MalformedText
  /\ ModelCalls = 2 /\ ToolRuns # <<>>
  /\ pc = "done" /\ outcome = "returned"
  /\ \E i \in ArtifactIdx : trace[i].text = MalformedText

\* the same loop run alone: its history, answer and invocation counts
RECURSIVE SoloRun(_, _, _, _, _, _)
SoloRun(m, k, msgs, it, chats, tools) ==
  LET resp == ScriptedModel(m, msgs)
      tool_calls == IF m = "native" THEN resp.tool_calls ELSE parse_tool_calls(resp.content)
      native_msgs == [j \in 1..Len(tool_calls) |->
                        ToolMessage(tool_calls[j],
                                    execute_mcp_tool_native(tool_calls[j].name, ToolsCache,
                                                            ScriptedEnv).value)]
      prompt_msgs == <<MergedMessage([j \in 1..Len(tool_calls) |->
                                        execute_tool_call(tool_calls[j], ToolsCache, ScriptedEnv)])>>
      next_msgs == IF m = "native"
                   THEN (msgs \o <<AssistantMessage(resp)>>) \o native_msgs
                   ELSE (msgs \o <<[role |-> "assistant", content |-> resp.content]>>) \o prompt_msgs
  IN IF it \notin LoopRange(m, k)
     THEN [result |-> FallbackText, messages |-> msgs, chats |-> chats, tools |-> tools]
     ELSE IF tool_calls = <<>>
          THEN [result |-> IF m = "native" THEN NativeFinalAnswer(resp)
                           ELSE PromptFinalAnswer(resp.content),
                messages |-> msgs, chats |-> chats + 1, tools |-> tools]
          ELSE SoloRun(m, k, next_msgs, it + 1, chats + 1, tools + Len(tool_calls))

Alone(i) ==
  SoloRun(loops[i].mode, pair_k,
          LoopInitialMessages(loops[i].mode, loops[i].user_message),
          IF loops[i].mode = "native" THEN 1 ELSE 0, 0, 0)

IsPrefix(s, t) == Len(s) <= Len(t) /\ s = SubSeq(t, 1, Len(s))

\* a user message of the history that carries a request
RequestTexts(msgs) ==
  {msgs[j].content : j \in {n \in 1..Len(msgs) :
      msgs[n].role = "user" /\ \E x \in LoopIds, w \in WantRounds : msgs[n].content = UserText(x, w)}}

(***************************************************************************)
(* C23: when two loops run concurrently in any interleaving, each loop's   *)
(* message history holds only messages of its own request (it is at every  *)
(* moment a prefix of the history of the same loop run alone), and a       *)
(* finished loop has the answer, the number of model invocations and the   *)
(* number of tool invocations of its run alone.                            *)
(***************************************************************************)
C23_LoopsAreIsolated ==
  \A i \in LoopIds :
    loops[i].pc \in {"chat", "tool", "done"} =>
      /\ IsPrefix(histories[HistoryOf(i)], Alone(i).messages)
      /\ RequestTexts(histories[HistoryOf(i)]) \subseteq {loops[i].user_message}
      /\ loops[i].pc = "done" =>
            /\ histories[HistoryOf(i)] = Alone(i).messages
            /\ loops[i].result = Alone(i).result
            /\ loops[i].chats = Alone(i).chats
            /\ loops[i].tools = Alone(i).tools

\* loop 1 has finished with its own answer after a round of tools while
\* loop 2, in the other mode, is suspended in its second round of tools
C23_Witness ==
  /\ loops[1].pc = "done" /\ loops[1].chats = 2 /\ loops[1].tools >= 1
  /\ loops[1].result = Alone(1).result /\ loops[1].result # FallbackText
  /\ loops[2].pc = "tool" /\ loops[2].chats = 2 /\ loops[2].tools >= 1
  /\ loops[1].mode # loops[2].mode

\* the model invocations whose response requested tool calls, and their rank
ToolChatIdx == {i \in ChatIdx : RequestedTools(i)}
Rank(i) == Cardinality({j \in ToolChatIdx : j <= i})
AssistantSeq == SelectSeq(messages, LAMBDA m : m.role = "assistant")
NRequested(i) == Len(Requested(<<AssistantSeq[Rank(i)]>>))

ToolFaultTexts(key) == {NotFoundMsg(key), "Connection refused", "No client for server"}
PerToolTexts(key) == {ExecutedText(key)} \cup {FailedText(key, e) : e \in ToolFaultTexts(key)}

(***************************************************************************)
(* C24: in an iteration whose response requests N >= 1 tool calls, one     *)
(* summary notification stating N comes before the first call, and one     *)
(* per-tool notification comes after each call and before the next; all    *)
(* are non-final.                                                          *)
(***************************************************************************)
C24_ProgressPerIteration ==
  /\ \A i \in ToolChatIdx :
       LET N == NRequested(i)
       IN /\ N >= 1
          /\ trace[i + 1].ev = "status"
          /\ trace[i + 1].text = "Thinking... (calling " \o ToString(N) \o " tool(s))"
          /\ \A j \in (i + 2)..Len(trace) :
               j <= i + 1 + 2 * N =>
                 \/ trace[j].ev = (IF (j - i) % 2 = 0 THEN "tool" ELSE "status")
                 \/ trace[j].ev = "failed" /\ j = Len(trace)
          /\ i + 2 + 2 * N <= Len(trace) => trace[i + 2 + 2 * N].ev \notin {"tool", "status"}
  /\ \A t \in DOMAIN trace :
       /\ trace[t].ev = "tool" =>
            /\ t < Len(trace)
            /\ trace[t + 1].ev = "status"
            /\ trace[t + 1].text \in PerToolTexts(trace[t].key)
       /\ trace[t].ev = "status" =>
            /\ ~trace[t].final
            /\ trace[t].text \in ThinkingTexts => t - 1 \in ChatIdx

C24_Witness ==
  \E i \in ToolChatIdx :
    /\ NRequested(i) = 2
    /\ i + 5 <= Len(trace)
    /\ trace[i + 1].text = ThinkingText(2)
    /\ trace[i + 2].ev = "tool" /\ trace[i + 3].ev = "status"
    /\ trace[i + 4].ev = "tool" /\ trace[i + 5].ev = "status"

\* whether a tool invocation gave an error result
IsErrorResult(e) ==
  \/ e.value \in ErrorTexts
  \/ e.value \in {FormatOne([tool |-> e.key, error |-> x]) : x \in ToolFaultTexts(e.key)}

(***************************************************************************)
(* C25: in both conventions the per-tool notification after a tool call    *)
(* indicates failure exactly when the call's result is an error result     *)
(* and success otherwise.                                                  *)
(* The code breaks it: the native loop emits "Tool '<key>' executed"       *)
(* (line 229) whatever the result is.                                      *)
(***************************************************************************)
C25_ProgressTellsFailure ==
  \A t \in DOMAIN trace :
    (trace[t].ev = "tool" /\ t < Len(trace) /\ trace[t + 1].ev = "status") =>
      IF IsErrorResult(trace[t])
      THEN trace[t + 1].text \in {FailedText(trace[t].key, e) : e \in ToolFaultTexts(trace[t].key)}
      ELSE trace[t + 1].text = ExecutedText(trace[t].key)

\* the last assistant message before position t of the history
AssistantBefore(t) == CHOOSE a \in AssistantIdx : a < t /\ \A b \in AssistantIdx : b < t => b <= a

(***************************************************************************)
(* C26: in the native convention, at every model invocation, each tool     *)
(* message carries the id of a request of the nearest assistant message    *)
(* before it, and every request of every assistant message is answered by  *)
(* exactly one tool message before the next assistant message.             *)
(***************************************************************************)
C26_ToolMessagesAnswerRequests ==
  (mode = "native" /\ pc = "chat") =>
    /\ \A t \in DOMAIN messages :
         messages[t].role = "tool" =>
           /\ \E a \in AssistantIdx : a < t
           /\ \E j \in DOMAIN messages[AssistantBefore(t)].tool_calls :
                messages[AssistantBefore(t)].tool_calls[j].id = messages[t].tool_call_id
    /\ \A a \in AssistantIdx :
         \A j \in DOMAIN messages[a].tool_calls :
           Cardinality({t \in DOMAIN messages :
                          /\ messages[t].role = "tool"
                          /\ AssistantBefore(t) = a
                          /\ messages[t].tool_call_id = messages[a].tool_calls[j].id}) = 1

C26_Witness ==
  /\ mode = "native" /\ pc = "chat"
  /\ \E a \in AssistantIdx :
       /\ Len(messages[a].tool_calls) = 2
       /\ Len(messages) = a + 2
       /\ messages[a + 1].tool_call_id = messages[a].tool_calls[1].id
       /\ messages[a + 2].tool_call_id = messages[a].tool_calls[2].id

\* the results of the tool calls of the n-th tool-calling iteration
RoundStart(n) == CHOOSE i \in ToolChatIdx : Rank(i) = n
RoundRuns(n) ==
  SelectSeq([t \in DOMAIN trace |-> [at |-> t, e |-> trace[t]]],
            LAMBDA x : /\ x.e.ev = "tool"
                       /\ x.at > RoundStart(n)
                       /\ \A c \in ChatIdx : c > RoundStart(n) => x.at < c)

RECURSIVE MergedText(_)
MergedText(runs) ==
  IF runs = <<>> THEN "Tool results:"
  ELSE MergedText(SubSeq(runs, 1, Len(runs) - 1)) \o "\n" \o runs[Len(runs)].e.value

(***************************************************************************)
(* C27: in the prompt convention each tool-calling iteration appends       *)
(* exactly two messages, the assistant message with the model's text and   *)
(* then one user message that merges the results of all the tool calls of  *)
(* the iteration, before the next model invocation.                        *)
(***************************************************************************)
C27_TwoMessagesPerIteration ==
  (mode = "prompt" /\ messages # <<>>) =>
    LET R == Cardinality(ToolChatIdx)
    IN /\ pc # "tool" => Len(messages) = 2 + 2 * R
       /\ pc = "tool" => Len(messages) = 2 + 2 * R - 1
       /\ \A n \in 1..R :
            /\ messages[2 * n + 1].role = "assistant"
            /\ parse_tool_calls(messages[2 * n + 1].content) # <<>>
            /\ 2 * n + 2 <= Len(messages) =>
                 /\ messages[2 * n + 2].role = "user"
                 /\ Len(RoundRuns(n)) = Len(parse_tool_calls(messages[2 * n + 1].content))
                 /\ messages[2 * n + 2].content = MergedText(RoundRuns(n))

C27_Witness ==
  /\ mode = "prompt" /\ pc = "chat"
  /\ Len(messages) = 4
  /\ Len(parse_tool_calls(messages[3].content)) = 2
  /\ messages[4].role = "user"
  /\ Len(RoundRuns(1)) = 2

(***************************************************************************)
(* C28: every tool call the model requested is executed exactly once, in   *)
(* request order, and no tool is executed that was not requested: when the *)
(* loop returns, the tool invocations are the requested calls of all the   *)
(* responses received.                                                     *)
(***************************************************************************)
C28_ExecutedAreRequested ==
  /\ Len(ToolRuns) <= Len(Requested(messages))
  /\ \A i \in DOMAIN ToolRuns :
       ToolRuns[i].key = (IF mode = "native" THEN Requested(messages)[i].function.name
                          ELSE Requested(messages)[i].tool)
  /\ LoopReturned => Len(ToolRuns) = Len(Requested(messages))

C28_Witness ==
  /\ pc = "done" /\ outcome = "returned"
  /\ ModelCalls = 2
  /\ Len(ToolRuns) = 1
  /\ ToolRuns[1].key = "calc:add" /\ ToolRuns[1].value = "5"
  /\ result = "The answer is 5"

\* the tool-calling iterations in which a tool was executed
ToolRounds == {i \in ToolChatIdx : i + 2 <= Len(trace) /\ trace[i + 2].ev = "tool"}

(***************************************************************************)
(* C29: the fallback is returned straight after a model invocation: a run  *)
(* performs at most max_tool_calls rounds of tool execution, and the tool  *)
(* calls requested by the (max_tool_calls + 1)-th response are not         *)
(* executed.                                                               *)
(* The code breaks it: the loop body executes the tool calls of every      *)
(* response, the last one included, and only then falls out of the for     *)
(* loop to the fallback return.                                            *)
(***************************************************************************)
C29_NoToolsAfterLastResponse ==
  Cardinality(ToolRounds) <= max_tool_calls

TerminalIdx == {i \in DOMAIN trace : trace[i].ev \in {"complete", "failed"}}

(***************************************************************************)
(* C30: every call of execute delivers exactly one terminal notification,  *)
(* complete or failed and never both, nothing is delivered after it, and   *)
(* the initial "processing" notification precedes the first model          *)
(* invocation.                                                             *)
(* The code breaks it: when TaskUpdater(...) raises (the fault of C7) the  *)
(* call ends with no notification at all.                                  *)
(***************************************************************************)
C30_OneTerminalNotification ==
  /\ Cardinality(TerminalIdx) <= 1
  /\ \A i \in TerminalIdx : i = Len(trace) /\ pc = "done"
  /\ pc = "done" => Cardinality(TerminalIdx) = 1
  /\ ModelCalls >= 1 =>
       \E j \in DOMAIN trace : j < FirstChat /\ trace[j] = Status(ProcessingText)

\* the request has no text: no message, no parts, or parts without text
TextFree(context) ==
  \/ ~context.has_message
  \/ \A j \in DOMAIN context.parts :
        \/ context.parts[j].shape = "other"
        \/ context.parts[j].text \in {None, ""}

\* the steps of execute that come before the check of the content
EarlierFaults == {"UnboundLocalError", "tool loading failed", "prepare_input failed"}

FailedStart ==
  /\ Len(calls') = Len(calls) + 1
  /\ calls'[Len(calls')].op = "start_agent"
  /\ calls'[Len(calls')].status = "raised"

(***************************************************************************)
(* C32: a call of start_agent that fails before serving begins (the name   *)
(* is already registered, is not configured, or its server cannot be       *)
(* built) leaves the registry as it was, and creates no listener.          *)
(***************************************************************************)
C32_FailedStartKeepsRegistry ==
  [][FailedStart => servers' = servers /\ listeners' = listeners]_vars

\* a start whose server could not be built, a start that succeeded, and then
\* the refusal of a second start with the first listener still registered
C32_Witness ==
  /\ \E c \in DOMAIN calls :
       /\ calls[c].op = "start_agent" /\ calls[c].err = "RuntimeError"
       /\ \E d \in 1..(c - 1) : calls[d].op = "start_agent" /\ calls[d].err = "create_server failed"
  /\ DOMAIN servers = {"A"}
  /\ Len(listeners) = 1

\* listener i is the current registry entry of its agent
IsRegistered(i) ==
  listeners[i].name \in DOMAIN servers /\ servers[listeners[i].name] = i

(***************************************************************************)
(* C33: after any sequence of operations, every listener that has been     *)
(* created is the current registry entry of its agent or has been told to  *)
(* exit.                                                                   *)
(***************************************************************************)
C33_NoOrphanListener ==
  \A i \in DOMAIN listeners : IsRegistered(i) \/ listeners[i].should_exit

====
